---- MODULE Spec2Model ----
(***************************************************************************)
(* A state-machine model of the IT ticketing portal (src/backend): the     *)
(* relational tables, the login sessions, the clock and the HTTP route     *)
(* handlers of app.py together with the derived fields of models.py.       *)
(*                                                                         *)
(* Conventions                                                             *)
(*  - An optional value (a nullable column, Python None) is a sequence of  *)
(*    length 0 or 1: None == <<>>, Some(x) == <<x>>.                       *)
(*  - Timestamps are integers counted in clock resolution steps            *)
(*    (Resolution steps per second) since the epoch 2025-11-01 00:00:00;   *)
(*    the calendar is idealised to months of 30 days.                      *)
(*  - Ticket numbers are sequences of one-character strings so that        *)
(*    formatting, prefix matching and parsing are computed, not assumed.   *)
(*  - Each request handler is one atomic action; it reads the clock once.  *)
(***************************************************************************)
EXTENDS Integers, Sequences, FiniteSets, TLC

VARIABLES users, tickets, comments, attachments, history, sessions, now, sent, last,
          config, email_logs, notification_reads, pending, threads, jobs

vars == <<users, tickets, comments, attachments, history, sessions, now, sent, last,
          config, email_logs, notification_reads, pending, threads, jobs>>

db == <<users, tickets, comments, attachments, history>>

\* The password settings of the configuration, the email log and
\* notification-read tables, the requests that have passed their checks and
\* not yet committed, the mail threads not yet run, and the invocations of
\* background jobs
aux == <<config, email_logs, notification_reads, pending, threads, jobs>>

(***************************************************************************)
(* Bounds of the model                                                     *)
(***************************************************************************)
MaxUsers == 3
MaxTickets == 3
MaxHistory == 4
MaxMonths == 2
Resolution == 2

(***************************************************************************)
(* Generic helpers                                                         *)
(***************************************************************************)
None == <<>>
Some(x) == <<x>>
IsNone(o) == Len(o) = 0
Val(o) == o[1]

Max(S) == CHOOSE x \in S : \A y \in S : y <= x

Range(s) == {s[i] : i \in 1..Len(s)}

IsPrefix(p, s) == Len(p) <= Len(s) /\ SubSeq(s, 1, Len(p)) = p

(***************************************************************************)
(* Calendar (datetime.utcnow, strftime)                                    *)
(***************************************************************************)
SecondsPerDay == 24 * 3600
TicksPerDay == SecondsPerDay * Resolution
TicksPerMonth == 30 * TicksPerDay
EpochYear == 2000 + 25
EpochMonth == 10 + 1

MonthIndex(t) == t \div TicksPerMonth
YearOf(t) == EpochYear + ((EpochMonth - 1 + MonthIndex(t)) \div 12)
MonthOf(t) == ((EpochMonth - 1 + MonthIndex(t)) % 12) + 1

(***************************************************************************)
(* Decimal formatting and parsing (str.format, int)                        *)
(***************************************************************************)
Digits == <<"0", "1", "2", "3", "4", "5", "6", "7", "8", "9">>
DigitChar(d) == Digits[d + 1]
IsDigitChar(c) == \E d \in 0..9 : Digits[d + 1] = c
DigitVal(c) == CHOOSE d \in 0..9 : Digits[d + 1] = c

RECURSIVE DecStr(_)
DecStr(n) == IF n < 10 THEN <<DigitChar(n)>> ELSE DecStr(n \div 10) \o <<DigitChar(n % 10)>>

RECURSIVE ZeroPad(_, _)
ZeroPad(s, w) == IF Len(s) >= w THEN s ELSE ZeroPad(<<"0">> \o s, w)

\* f"{n:04d}": at least four digits, zero padded
Format04d(n) == ZeroPad(DecStr(n), 4)
\* f"{n:02d}"
Format02d(n) == ZeroPad(DecStr(n), 2)

\* now.strftime('%y%m'): two-digit year, two-digit month
StrftimeShortYearMonth(t) == Format02d(YearOf(t) % 100) \o Format02d(MonthOf(t))
\* now.strftime('%Y%m'): four-digit year, two-digit month
StrftimeYearMonth(t) == ZeroPad(DecStr(YearOf(t)), 4) \o Format02d(MonthOf(t))

\* s.split('-')[-1]: the part after the last '-'
RECURSIVE LastField(_)
LastField(s) ==
    IF Len(s) = 0 THEN <<>>
    ELSE IF s[Len(s)] = "-" THEN <<>>
    ELSE LastField(SubSeq(s, 1, Len(s) - 1)) \o <<s[Len(s)]>>

\* int(s) succeeds on a non-empty string of decimal digits
IsNumeral(s) == Len(s) > 0 /\ \A i \in 1..Len(s) : IsDigitChar(s[i])

RECURSIVE ParseDec(_)
ParseDec(s) == IF Len(s) = 0 THEN 0 ELSE 10 * ParseDec(SubSeq(s, 1, Len(s) - 1)) + DigitVal(s[Len(s)])

TicketPrefix == <<"I", "T", "-">>

(***************************************************************************)
(* Request text: str(id), int(text), text.strip()                          *)
(* Form values are strings; the conversions are tabulated for the values   *)
(* the model submits.  " 2" is a numeral with surrounding whitespace:      *)
(* int() accepts it, and it is not the str() of any id.                    *)
(***************************************************************************)
IdText == <<"1", "2", "3", "4", "5", "6", "7", "8", "9">>
Absent == "<absent>"

\* str(n)
Str(n) == IdText[n]
\* text.strip()
Strip(s) == IF s = " 2" THEN "2" ELSE IF s = " " THEN "" ELSE s
\* int(text) raises ValueError unless the stripped text is a decimal numeral
ParsesAsInt(s) == \E n \in 1..Len(IdText) : IdText[n] = Strip(s)
IntOf(s) == CHOOSE n \in 1..Len(IdText) : IdText[n] = Strip(s)

(***************************************************************************)
(* Passwords (werkzeug generate_password_hash / check_password_hash)       *)
(***************************************************************************)
generate_password_hash(pw) == <<"hash", pw>>
check_password_hash(h, pw) == h = generate_password_hash(pw)

set_password(user, pw) == [user EXCEPT !.password_hash = generate_password_hash(pw)]
check_password(user, pw) == check_password_hash(user.password_hash, pw)

(***************************************************************************)
(* models.py: status vocabulary and the derived SLA fields of Ticket       *)
(***************************************************************************)
TICKET_STATUSES == {"Not Open Yet", "Open", "In Progress", "Re-Open", "Resolved", "Closed"}

\* int(x) on a float truncates toward zero; d is a difference of timestamps
TruncSeconds(d) == IF d >= 0 THEN d \div Resolution ELSE -((-d) \div Resolution)

SixHours == 6 * 3600

sla_seconds_left(t, clock) ==
    IF IsNone(t.due_date) THEN None
    ELSE IF t.status \in {"Closed", "Resolved", "Not Open Yet"} THEN None
    ELSE Some(TruncSeconds(Val(t.due_date) - clock))

sla_state(t, clock) ==
    IF t.status \in {"Closed", "Resolved"} THEN
        IF ~IsNone(t.closed_at) /\ ~IsNone(t.due_date) THEN
            IF Val(t.closed_at) <= Val(t.due_date) THEN Some("Met") ELSE Some("Breached")
        ELSE Some("Met")
    ELSE
        LET secs == sla_seconds_left(t, clock) IN
        IF IsNone(secs) THEN None
        ELSE IF Val(secs) < 0 THEN Some("Breached")
        ELSE IF Val(secs) <= SixHours THEN Some("At Risk")
        ELSE Some("Met")

(***************************************************************************)
(* app.py: assignment resolution                                           *)
(***************************************************************************)
\* safe_set_assignee_fields: a field is written only when a value is given
safe_set_assignee_fields(t, name, tag) ==
    [t EXCEPT !.assignee_name = IF IsNone(name) THEN @ ELSE name,
              !.assign_status = IF IsNone(tag) THEN @ ELSE tag]

\* A resolution that looks at the custom text before the reserved words
AssigneeOutcomeCustomFirst(val, custom, U) ==
    IF val = "" /\ custom = "" THEN
        [id |-> None, obj |-> None, display |-> "Unassigned", tag |-> "Unassigned"]
    ELSE IF custom # "" THEN
        [id |-> None, obj |-> None, display |-> custom, tag |-> "Custom"]
    ELSE IF val = "assigned" THEN
        [id |-> None, obj |-> None, display |-> "Assigned", tag |-> "Assigned"]
    ELSE IF val = "queue" THEN
        [id |-> None, obj |-> None, display |-> "In Queue", tag |-> "In Queue"]
    ELSE IF ParsesAsInt(val) /\ IntOf(val) \in DOMAIN U THEN
        [id |-> Some(IntOf(val)), obj |-> Some(IntOf(val)),
         display |-> U[IntOf(val)].name, tag |-> "Engineer"]
    ELSE
        [id |-> None, obj |-> None, display |-> val, tag |-> "Custom"]

\* The branch of process_assignee_update taken: the assignee reference,
\* the resolved user (assignee_obj), the display text and the tag.
AssigneeOutcome(val, custom, U) ==
    IF val = "" /\ custom = "" THEN
        [id |-> None, obj |-> None, display |-> "Unassigned", tag |-> "Unassigned"]
    ELSE IF val = "assigned" THEN
        [id |-> None, obj |-> None, display |-> "Assigned", tag |-> "Assigned"]
    ELSE IF val = "queue" THEN
        [id |-> None, obj |-> None, display |-> "In Queue", tag |-> "In Queue"]
    ELSE IF custom # "" THEN
        [id |-> None, obj |-> None, display |-> custom, tag |-> "Custom"]
    ELSE IF ParsesAsInt(val) /\ IntOf(val) \in DOMAIN U THEN
        [id |-> Some(IntOf(val)), obj |-> Some(IntOf(val)),
         display |-> U[IntOf(val)].name, tag |-> "Engineer"]
    ELSE
        [id |-> None, obj |-> None, display |-> val, tag |-> "Custom"]

\* process_assignee_update(ticket, assignee_val, assignee_custom, ...):
\* the ticket as left by the call and the returned triple
process_assignee_update(t, val, custom, U) ==
    LET o == AssigneeOutcome(val, custom, U) IN
    [ticket |-> safe_set_assignee_fields([t EXCEPT !.assignee_id = o.id],
                                         Some(o.display), Some(o.tag)),
     assignee_obj |-> o.obj,
     new_display |-> o.display,
     assign_status |-> o.tag]

(***************************************************************************)
(* forms.py: PasswordValidator                                             *)
(***************************************************************************)
UpperChars == {"A", "B", "P", "Z"}
IsUpper(c) == c \in UpperChars
SpecialChars == {"!", "@", "#", "$", "%", "^", "&", "*"}

PasswordValidator(min_length, require_upper, require_numbers, require_special, password) ==
    /\ Len(password) >= min_length
    /\ require_upper => \E i \in 1..Len(password) : IsUpper(password[i])
    /\ require_numbers => \E i \in 1..Len(password) : IsDigitChar(password[i])
    /\ require_special => \E i \in 1..Len(password) : password[i] \in SpecialChars

(***************************************************************************)
(* Tables                                                                  *)
(***************************************************************************)
\* INTEGER PRIMARY KEY of the default SQLite store: largest id in use + 1
NextId(table) == IF DOMAIN table = {} THEN 1 ELSE Max(DOMAIN table) + 1

Insert(table, row) == (NextId(table) :> row) @@ table

Remove(table, ids) == [i \in DOMAIN table \ ids |-> table[i]]

\* A role check that lets every caller through
IsAdminAnyone(u) == TRUE

\* current_user.role == "admin"
IsAdmin(u) == users[u].role = "admin"

\* user_loader: the session's user id resolved against the users table
Authenticated(u) == u \in sessions /\ u \in DOMAIN users

UserByEmail(email, U) ==
    LET ids == {i \in DOMAIN U : U[i].email = email} IN
    IF ids = {} THEN None ELSE Some(CHOOSE i \in ids : \A j \in ids : i <= j)

AdminPassword == <<"A", "d", "m", "i", "n", "@", "1", "2", "3">>
ADMIN_EMAIL == "admin@portal.com"
SLA_HOURS == 24

NewUser(name, email, role, active, pw) ==
    set_password([name |-> name, email |-> email, role |-> role, active |-> active,
                  password_hash |-> None], pw)

\* A commit that skips the unique index on users.email
CommitUsersUnchecked(U, V) == V

\* users.email is declared unique: a commit that leaves two rows with one
\* email raises IntegrityError and the handler rolls the session back
UniqueEmails(U) == \A i \in DOMAIN U : \A j \in DOMAIN U : i # j => U[i].email # U[j].email

CommitUsers(U, V) == IF UniqueEmails(V) THEN V ELSE U

\* create_app: the default admin is added when no admin-role user exists;
\* a failed commit is caught and logged, and the application starts anyway
create_app(U) ==
    IF \E i \in DOMAIN U : U[i].role = "admin" THEN U
    ELSE CommitUsers(U, Insert(U, NewUser("System Admin", ADMIN_EMAIL, "admin", TRUE, AdminPassword)))

Response(op, u, target, form, result) ==
    [op |-> op, user |-> u, target |-> target, form |-> form, result |-> result]

\* Config: the password settings when the environment sets none of them
DefaultConfig ==
    [MIN_PASSWORD_LENGTH |-> 8, REQUIRE_PASSWORD_UPPERCASE |-> TRUE,
     REQUIRE_PASSWORD_NUMBERS |-> TRUE, REQUIRE_PASSWORD_SPECIAL |-> FALSE]

AuxInit ==
    /\ config = DefaultConfig
    /\ email_logs = <<>>
    /\ notification_reads = {}
    /\ pending = {}
    /\ threads = <<>>
    /\ jobs = {}

Init ==
    /\ users = create_app(<<>>)
    /\ tickets = <<>>
    /\ comments = <<>>
    /\ attachments = <<>>
    /\ history = <<>>
    /\ sessions = {}
    /\ now = 0
    /\ sent = <<>>
    /\ last = Response("boot", 0, 0, <<>>, "ok")
    /\ AuxInit

(***************************************************************************)
(* Clock                                                                   *)
(***************************************************************************)
Horizon == MaxMonths * TicksPerMonth

Tick(d) ==
    /\ d > 0
    /\ now + d <= Horizon
    /\ now' = now + d
    /\ UNCHANGED <<users, tickets, comments, attachments, history, sessions, sent, last>>
    /\ UNCHANGED aux

(***************************************************************************)
(* /register, /login, /logout                                              *)
(***************************************************************************)
\* A form whose password rules follow the configured settings
RegisterFormValidByConfig(form) ==
    /\ IsNone(UserByEmail(form.email, users))
    /\ Len(form.password) >= 8
    /\ PasswordValidator(config.MIN_PASSWORD_LENGTH, config.REQUIRE_PASSWORD_UPPERCASE,
                         config.REQUIRE_PASSWORD_NUMBERS, config.REQUIRE_PASSWORD_SPECIAL, form.password)
    /\ form.password_confirm = form.password

RegisterFormValid(form) ==
    /\ IsNone(UserByEmail(form.email, users))
    /\ Len(form.password) >= 8
    /\ PasswordValidator(8, TRUE, TRUE, FALSE, form.password)
    /\ form.password_confirm = form.password

Register(form) ==
    /\ NextId(users) <= MaxUsers
    /\ IF RegisterFormValid(form)
       THEN /\ users' = Insert(users, NewUser(form.name, form.email, "user", TRUE, form.password))
            /\ last' = Response("register", 0, NextId(users), form, "ok")
       ELSE /\ users' = users
            /\ last' = Response("register", 0, 0, form, "invalid_form")
    /\ sent' = <<>>
    /\ UNCHANGED <<tickets, comments, attachments, history, sessions, now>>
    /\ UNCHANGED aux

\* A login that does not look at the active flag
LoginIgnoringActive(email, password, login_mode) ==
    LET found == UserByEmail(email, IF login_mode = "admin"
                                    THEN [i \in {j \in DOMAIN users : users[j].role = "admin"} |-> users[i]]
                                    ELSE users)
        form == [email |-> email, password |-> password, role |-> login_mode]
    IN
    /\ IF ~IsNone(found) /\ check_password(users[Val(found)], password)
       THEN /\ sessions' = sessions \cup {Val(found)}
            /\ last' = Response("login", Val(found), 0, form, "ok")
       ELSE /\ sessions' = sessions
            /\ last' = Response("login", 0, 0, form, "invalid_credentials")
    /\ sent' = <<>>
    /\ UNCHANGED <<users, tickets, comments, attachments, history, now>>
    /\ UNCHANGED aux

Login(email, password, login_mode) ==
    LET found == UserByEmail(email, IF login_mode = "admin"
                                    THEN [i \in {j \in DOMAIN users : users[j].role = "admin"} |-> users[i]]
                                    ELSE users)
        form == [email |-> email, password |-> password, role |-> login_mode]
    IN
    /\ IF ~IsNone(found) /\ check_password(users[Val(found)], password) /\ users[Val(found)].active
       THEN /\ sessions' = sessions \cup {Val(found)}
            /\ last' = Response("login", Val(found), 0, form, "ok")
       ELSE /\ sessions' = sessions
            /\ last' = Response("login", 0, 0, form, "invalid_credentials")
    /\ sent' = <<>>
    /\ UNCHANGED <<users, tickets, comments, attachments, history, now>>
    /\ UNCHANGED aux

Logout(u) ==
    /\ Authenticated(u)
    /\ sessions' = sessions \ {u}
    /\ last' = Response("logout", u, 0, <<>>, "ok")
    /\ sent' = <<>>
    /\ UNCHANGED <<users, tickets, comments, attachments, history, now>>
    /\ UNCHANGED aux

(***************************************************************************)
(* utils.py: attachments and notification emails                           *)
(***************************************************************************)
ALLOWED_EXTENSIONS == {"png", "jpg", "jpeg", "gif", "pdf", "txt", "log", "docx", "doc", "zip", "xlsx"}

\* allowed_file: the extension after the last dot, tabulated for the
\* file names the model uploads
Extension == [f \in {"a.pdf", "a.exe", "notes"} |->
                 IF f = "a.pdf" THEN Some("pdf") ELSE IF f = "a.exe" THEN Some("exe") ELSE None]
allowed_file(filename) ==
    /\ filename # ""
    /\ ~IsNone(Extension[filename])
    /\ Val(Extension[filename]) \in ALLOWED_EXTENSIONS

\* save_attachment: the stored file name, or None when the upload is refused
save_attachment(filename) ==
    IF filename = "" \/ ~allowed_file(filename) THEN None ELSE Some(filename)

Mail(kind, to, ticket_id) == [kind |-> kind, to |-> to, ticket_id |-> ticket_id]

email_ticket_created(user, ticket_id) ==
    (IF user.email # "" THEN <<Mail("created", user.email, ticket_id)>> ELSE <<>>)
    \o (IF ADMIN_EMAIL # user.email THEN <<Mail("created", ADMIN_EMAIL, ticket_id)>> ELSE <<>>)

email_ticket_updated(owner, ticket_id) ==
    IF IsNone(owner) \/ users[Val(owner)].email = "" THEN <<>>
    ELSE <<Mail("updated", users[Val(owner)].email, ticket_id)>>

email_assignee_assigned(assignee, ticket_id) ==
    IF assignee.email = "" THEN <<>> ELSE <<Mail("assigned", assignee.email, ticket_id)>>

compute_due_date(hours, clock) == clock + hours * 3600 * Resolution

(***************************************************************************)
(* models.py: before_insert listener                                       *)
(***************************************************************************)
\* generate_ticket_no: keeps a pre-assigned number, else counts this month's
\* tickets and formats IT-<YYYYMM>-<count+1>
generate_ticket_no(t, T, clock) ==
    IF t.ticket_no # <<>> THEN t
    ELSE LET month_start == MonthIndex(clock) * TicksPerMonth
             res == Cardinality({i \in DOMAIN T : T[i].created_at >= month_start})
         IN [t EXCEPT !.ticket_no = TicketPrefix \o StrftimeYearMonth(clock)
                                      \o <<"-">> \o Format04d(res + 1)]

(***************************************************************************)
(* /ticket/create                                                          *)
(***************************************************************************)
\* A numbering that continues from the newest ticket of any month
RouteTicketNoAnyMonth(T, clock) ==
    LET year_month == StrftimeShortYearMonth(clock)
        next_number ==
            IF DOMAIN T = {} THEN 1
            ELSE LET field == LastField(T[Max(DOMAIN T)].ticket_no) IN
                 IF IsNumeral(field) THEN ParseDec(field) + 1 ELSE 1
    IN TicketPrefix \o year_month \o <<"-">> \o Format04d(next_number)

\* The candidate number computed by the route from the newest ticket whose
\* number starts with IT-<yymm>
RouteTicketNo(T, clock) ==
    LET year_month == StrftimeShortYearMonth(clock)
        matching == {i \in DOMAIN T : IsPrefix(TicketPrefix \o year_month, T[i].ticket_no)}
        next_number ==
            IF matching = {} THEN 1
            ELSE LET field == LastField(T[Max(matching)].ticket_no) IN
                 IF IsNumeral(field) THEN ParseDec(field) + 1 ELSE 1
    IN TicketPrefix \o year_month \o <<"-">> \o Format04d(next_number)

NewTicket(ticket_no, user_id, priority, status, assignee_id, sla_hours, clock) ==
    [ticket_no |-> ticket_no, user_id |-> user_id, priority |-> priority, status |-> status,
     assignee_id |-> assignee_id, assignee_name |-> None, assign_status |-> None,
     created_at |-> clock, due_date |-> Some(compute_due_date(sla_hours, clock)),
     closed_at |-> None]

HistoryEntry(ticket_id, user_id, event) ==
    [ticket_id |-> ticket_id, user_id |-> user_id, event |-> event]

\* TicketForm: FileAllowed on the optional attachment
TicketFormAllowed == {"pdf", "doc", "docx", "txt", "png", "jpg", "jpeg", "gif", "zip"}
TicketFormValid(form) ==
    /\ form.priority \in {"Low", "Medium", "High", "Critical"}
    /\ form.attachment # "" =>
           ~IsNone(Extension[form.attachment]) /\ Val(Extension[form.attachment]) \in TicketFormAllowed

CreateTicket(u, form) ==
    LET t == generate_ticket_no(
                 NewTicket(RouteTicketNo(tickets, now), u, form.priority, "Not Open Yet",
                           None, SLA_HOURS, now), tickets, now)
        id == NextId(tickets)
        saved == save_attachment(form.attachment)
    IN
    /\ Authenticated(u)
    /\ id <= MaxTickets
    /\ Len(history) < MaxHistory
    /\ Len(attachments) < MaxHistory
    /\ IF ~TicketFormValid(form)
       THEN /\ UNCHANGED <<tickets, attachments, history>>
            /\ sent' = <<>>
            /\ last' = Response("create_ticket", u, 0, form, "invalid_form")
       ELSE IF \E i \in DOMAIN tickets : tickets[i].ticket_no = t.ticket_no
       THEN \* unique constraint on ticket_no: the flush fails, the request rolls back
            /\ UNCHANGED <<tickets, attachments, history>>
            /\ sent' = <<>>
            /\ last' = Response("create_ticket", u, 0, form, "failed")
       ELSE /\ tickets' = Insert(tickets, t)
            /\ attachments' = IF IsNone(saved) THEN attachments
                              ELSE Append(attachments, [ticket_id |-> id, filename |-> Val(saved)])
            /\ history' = Append(history, HistoryEntry(id, Some(u), "Ticket created"))
            /\ sent' = email_ticket_created(users[u], id)
            /\ last' = Response("create_ticket", u, id, form, "ok")
    /\ UNCHANGED <<users, comments, sessions, now>>
    /\ UNCHANGED aux

(***************************************************************************)
(* /ticket/<id> (POST) and /admin/ticket/<id>/update                       *)
(***************************************************************************)
\* Ticket.assignee: the user row the assignee reference resolves to
AssigneeOf(t, U) ==
    IF ~IsNone(t.assignee_id) /\ Val(t.assignee_id) \in DOMAIN U THEN t.assignee_id ELSE None

\* T.assignee.name if T.assignee else (T.assignee_name or "Unassigned")
AssigneeDisplay(t, U) ==
    IF ~IsNone(AssigneeOf(t, U)) THEN U[Val(AssigneeOf(t, U))].name
    ELSE IF ~IsNone(t.assignee_name) /\ Val(t.assignee_name) # "" THEN Val(t.assignee_name)
    ELSE "Unassigned"

\* The status step shared by both update routes: w carries the ticket being
\* edited, the history entries and mails added so far and the number of
\* entries of updated_texts.
Work(t) == [ticket |-> t, hist |-> <<>>, mails |-> <<>>, texts |-> 0]

\* A status step that also takes the assignment off a ticket being closed
StatusStepUnassigning(w, id, u, new_status, clock) ==
    IF new_status # "" /\ new_status # w.ticket.status
    THEN [w EXCEPT !.ticket.status = new_status,
                   !.ticket.closed_at = IF new_status \in {"Closed", "Resolved"} THEN Some(clock) ELSE @,
                   !.ticket.assignee_id = IF new_status \in {"Closed", "Resolved"} THEN None ELSE @,
                   !.hist = Append(@, HistoryEntry(id, Some(u), "Status changed")),
                   !.texts = @ + 1]
    ELSE w

StatusStep(w, id, u, new_status, clock) ==
    IF new_status # "" /\ new_status # w.ticket.status
    THEN [w EXCEPT !.ticket.status = new_status,
                   !.ticket.closed_at = IF new_status \in {"Closed", "Resolved"} THEN Some(clock) ELSE @,
                   !.hist = Append(@, HistoryEntry(id, Some(u), "Status changed")),
                   !.texts = @ + 1]
    ELSE w

PriorityStep(w, id, u, new_priority) ==
    IF new_priority # "" /\ new_priority # w.ticket.priority
    THEN [w EXCEPT !.ticket.priority = new_priority,
                   !.hist = Append(@, HistoryEntry(id, Some(u), "Priority changed")),
                   !.texts = @ + 1]
    ELSE w

\* ticket_view: the assignee block of the admin-only part
ViewAssigneeStep(w, id, u, new_assignee, custom_name) ==
    LET current_assignee_val ==
            IF ~IsNone(w.ticket.assignee_id) THEN Str(Val(w.ticket.assignee_id)) ELSE ""
    IN
    IF (new_assignee # Absent /\ new_assignee # current_assignee_val) \/ custom_name # ""
    THEN LET r == process_assignee_update(w.ticket, IF new_assignee = Absent THEN "" ELSE new_assignee,
                                          custom_name, users)
             auto == r.ticket.status \in {"Open", "Re-Open", "Not Open Yet"}
         IN [ticket |-> IF auto THEN [r.ticket EXCEPT !.status = "In Progress"] ELSE r.ticket,
             hist |-> w.hist \o <<HistoryEntry(id, Some(u), "Assignee changed")>>
                        \o (IF auto THEN <<HistoryEntry(id, Some(u), "Auto status changed")>> ELSE <<>>),
             mails |-> w.mails \o (IF IsNone(r.assignee_obj) THEN <<>>
                                   ELSE email_assignee_assigned(users[Val(r.assignee_obj)], id)),
             texts |-> w.texts + 1]
    ELSE w

\* admin_ticket_update: the assignee block
AdminAssigneeStep(w, id, u, assignee_val, assignee_custom) ==
    LET old_assignee == AssigneeDisplay(w.ticket, users)
        r == process_assignee_update(w.ticket, assignee_val, assignee_custom, users)
        auto == r.ticket.status = "Open"
    IN
    IF r.new_display # old_assignee
    THEN [ticket |-> IF auto THEN [r.ticket EXCEPT !.status = "In Progress"] ELSE r.ticket,
          hist |-> w.hist \o <<HistoryEntry(id, Some(u), "Assignee changed")>>
                     \o (IF auto THEN <<HistoryEntry(id, Some(u), "Auto status changed")>> ELSE <<>>),
          mails |-> w.mails \o (IF IsNone(r.assignee_obj) THEN <<>>
                                ELSE email_assignee_assigned(users[Val(r.assignee_obj)], id)),
          texts |-> w.texts + 1 + (IF auto THEN 1 ELSE 0)]
    ELSE [w EXCEPT !.ticket = r.ticket]

\* Ticket.user: the creator row, when it exists
OwnerOf(t) == IF t.user_id \in DOMAIN users THEN Some(t.user_id) ELSE None

TicketView(u, id, form) ==
    /\ Authenticated(u)
    /\ id \in DOMAIN tickets
    /\ Len(history) < MaxHistory
    /\ Len(attachments) < MaxHistory
    /\ IF ~(users[u].role \in {"admin", "assignee"} \/ tickets[id].user_id = u)
       THEN /\ UNCHANGED <<tickets, comments, attachments, history>>
            /\ sent' = <<>>
            /\ last' = Response("ticket_view", u, id, form, "forbidden")
       ELSE LET w1 == StatusStep(Work(tickets[id]), id, u, form.status, now)
                w3 == IF users[u].role = "admin"
                      THEN ViewAssigneeStep(PriorityStep(w1, id, u, form.priority), id, u,
                                            form.assignee_id, Strip(form.assignee_name_custom))
                      ELSE w1
                \* request.form.get("message") or request.form.get("comment")
                msg == Strip(IF form.message # "" THEN form.message ELSE form.comment)
                saved == save_attachment(form.attachment)
                hist == w3.hist
                        \o (IF msg # "" THEN <<HistoryEntry(id, Some(u), "Comment added")>> ELSE <<>>)
                        \o (IF ~IsNone(saved) THEN <<HistoryEntry(id, Some(u), "Attachment uploaded")>> ELSE <<>>)
                texts == w3.texts + (IF msg # "" THEN 1 ELSE 0) + (IF ~IsNone(saved) THEN 1 ELSE 0)
            IN
            /\ tickets' = [tickets EXCEPT ![id] = w3.ticket]
            /\ comments' = IF msg # ""
                           THEN Append(comments, [ticket_id |-> id, user_id |-> u, prefix |-> "", message |-> msg])
                           ELSE comments
            /\ attachments' = IF ~IsNone(saved)
                              THEN Append(attachments, [ticket_id |-> id, filename |-> Val(saved)])
                              ELSE attachments
            /\ history' = history \o hist
            /\ sent' = w3.mails \o (IF texts > 0 THEN email_ticket_updated(OwnerOf(w3.ticket), id) ELSE <<>>)
            /\ last' = Response("ticket_view", u, id, form, "ok")
    /\ UNCHANGED <<users, sessions, now>>
    /\ UNCHANGED aux

AdminTicketUpdate(u, id, form) ==
    /\ Authenticated(u)
    /\ Len(history) < MaxHistory
    /\ IF ~IsAdmin(u)
       THEN /\ UNCHANGED <<tickets, comments, history>>
            /\ sent' = <<>>
            /\ last' = Response("admin_ticket_update", u, id, form, "forbidden")
       ELSE /\ id \in DOMAIN tickets
            /\ LET w1 == StatusStep(Work(tickets[id]), id, u, form.status, now)
                   w2 == PriorityStep(w1, id, u, form.priority)
                   w3 == AdminAssigneeStep(w2, id, u,
                             Strip(IF form.assignee_id = Absent THEN "" ELSE form.assignee_id),
                             Strip(form.assignee_name_custom))
                   comment == Strip(form.comment)
                   hist == w3.hist
                           \o (IF comment # "" THEN <<HistoryEntry(id, Some(u), "Admin comment added")>> ELSE <<>>)
                   texts == w3.texts + (IF comment # "" THEN 1 ELSE 0)
               IN
               /\ tickets' = [tickets EXCEPT ![id] = w3.ticket]
               /\ comments' = IF comment # ""
                              THEN Append(comments, [ticket_id |-> id, user_id |-> u,
                                                     prefix |-> "[ADMIN] ", message |-> comment])
                              ELSE comments
               /\ history' = history \o hist
               /\ sent' = w3.mails \o (IF texts > 0 THEN email_ticket_updated(OwnerOf(w3.ticket), id) ELSE <<>>)
               /\ last' = Response("admin_ticket_update", u, id, form, "ok")
    /\ UNCHANGED <<users, attachments, sessions, now>>
    /\ UNCHANGED aux

(***************************************************************************)
(* /admin/users, /admin/user/<id>/edit, /admin/user/<id>/delete            *)
(***************************************************************************)
DefaultPassword == <<"C", "h", "a", "n", "g", "e", "M", "e", "1", "2", "3", "!">>

AdminUsers(u, form) ==
    /\ Authenticated(u)
    /\ NextId(users) <= MaxUsers
    /\ IF ~IsAdmin(u)
       THEN /\ users' = users
            /\ last' = Response("admin_users", u, 0, form, "forbidden")
       ELSE IF ~IsNone(UserByEmail(form.email, users))
       THEN /\ users' = users
            /\ last' = Response("admin_users", u, 0, form, "email_exists")
       ELSE /\ users' = Insert(users, NewUser(form.name, form.email, form.role, form.active,
                                  IF form.password # <<>> THEN form.password ELSE DefaultPassword))
            /\ last' = Response("admin_users", u, NextId(users), form, "ok")
    /\ sent' = <<>>
    /\ UNCHANGED <<tickets, comments, attachments, history, sessions, now>>
    /\ UNCHANGED aux

AdminUserEdit(u, user_id, form) ==
    /\ Authenticated(u)
    /\ IF ~IsAdmin(u)
       THEN /\ users' = users
            /\ last' = Response("admin_user_edit", u, user_id, form, "forbidden")
       ELSE /\ user_id \in DOMAIN users
            /\ LET edited == [users[user_id] EXCEPT !.name = form.name, !.email = form.email,
                                                    !.role = form.role, !.active = form.active]
                   user == IF form.password # <<>> THEN set_password(edited, form.password) ELSE edited
               IN
               IF \E i \in DOMAIN users \ {user_id} : users[i].email = user.email
               THEN \* unique constraint on email: the commit fails and is rolled back
                    /\ users' = users
                    /\ last' = Response("admin_user_edit", u, user_id, form, "failed")
               ELSE /\ users' = [users EXCEPT ![user_id] = user]
                    /\ last' = Response("admin_user_edit", u, user_id, form, "ok")
    /\ sent' = <<>>
    /\ UNCHANGED <<tickets, comments, attachments, history, sessions, now>>
    /\ UNCHANGED aux

\* A deletion that also removes the tickets assigned to the user
BulkDeleteTicketsAndAssigned(T, user_id) ==
    Remove(T, {i \in DOMAIN T : T[i].user_id = user_id \/ T[i].assignee_id = Some(user_id)})

\* Query.delete(): a bulk DELETE of the matching rows; relationship cascades
\* are not applied and the SQLite store does not enforce foreign keys
BulkDeleteTickets(T, user_id) == Remove(T, {i \in DOMAIN T : T[i].user_id = user_id})
BulkDeleteComments(C, user_id) == SelectSeq(C, LAMBDA c : c.user_id # user_id)
BulkDeleteHistory(H, user_id) == SelectSeq(H, LAMBDA h : h.user_id # Some(user_id))

\* db.session.delete(user): the unit of work clears the assignee reference
\* of the tickets still assigned to the user (User.tickets_assigned)
NullAssignee(T, user_id) ==
    [i \in DOMAIN T |-> IF T[i].assignee_id = Some(user_id)
                        THEN [T[i] EXCEPT !.assignee_id = None] ELSE T[i]]

AdminUserDelete(u, user_id) ==
    /\ Authenticated(u)
    /\ IF ~IsAdmin(u)
       THEN /\ UNCHANGED <<users, tickets, comments, history>>
            /\ last' = Response("admin_user_delete", u, user_id, <<>>, "forbidden")
       ELSE /\ user_id \in DOMAIN users
            /\ IF user_id = u
               THEN /\ UNCHANGED <<users, tickets, comments, history>>
                    /\ last' = Response("admin_user_delete", u, user_id, <<>>, "refused")
               ELSE /\ tickets' = NullAssignee(BulkDeleteTickets(tickets, user_id), user_id)
                    /\ comments' = BulkDeleteComments(comments, user_id)
                    /\ history' = BulkDeleteHistory(history, user_id)
                    /\ users' = Remove(users, {user_id})
                    /\ last' = Response("admin_user_delete", u, user_id, <<>>, "ok")
    /\ sent' = <<>>
    /\ UNCHANGED <<attachments, sessions, now>>
    /\ UNCHANGED aux

(***************************************************************************)
(* Administrative routes that only read, or only send mail                 *)
(***************************************************************************)
\* A handler that checks the role and then only renders data
AdminRead(op, u, target) ==
    /\ Authenticated(u)
    /\ last' = Response(op, u, target, <<>>, IF IsAdmin(u) THEN "ok" ELSE "forbidden")
    /\ sent' = <<>>
    /\ UNCHANGED <<users, tickets, comments, attachments, history, sessions, now>>
    /\ UNCHANGED aux

AdminDashboard(u) == AdminRead("admin_dashboard", u, 0)
ReportsChartData(u) == AdminRead("reports_chart_data", u, 0)
AdminAttachments(u) == AdminRead("admin_attachments", u, 0)
AdminCheckNew(u) == AdminRead("admin_check_new", u, 0)
AdminEmailLogsApi(u) == AdminRead("admin_email_logs_api", u, 0)
AdminTicketView(u, id) == AdminRead("admin_ticket_view", u, id)
AdminTickets(u) == AdminRead("admin_tickets", u, 0)
AdminUsersList(u) == AdminRead("admin_users_list", u, 0)
Reports(u) == AdminRead("reports", u, 0)

AdminSlaDailyReport(u) ==
    /\ Authenticated(u)
    /\ IF ~IsAdmin(u)
       THEN /\ sent' = <<>>
            /\ last' = Response("admin_sla_daily_report", u, 0, <<>>, "forbidden")
       ELSE /\ sent' = <<Mail("sla_report", users[u].email, 0)>>
            /\ last' = Response("admin_sla_daily_report", u, 0, <<>>, "ok")
    /\ UNCHANGED <<users, tickets, comments, attachments, history, sessions, now>>
    /\ UNCHANGED aux

AdminEmailTest(u) ==
    /\ Authenticated(u)
    /\ IF ~IsAdmin(u)
       THEN /\ sent' = <<>>
            /\ last' = Response("admin_email_test", u, 0, <<>>, "forbidden")
       ELSE /\ sent' = <<Mail("test", users[u].email, 0)>>
            /\ last' = Response("admin_email_test", u, 0, <<>>, "ok")
    /\ UNCHANGED <<users, tickets, comments, attachments, history, sessions, now>>
    /\ UNCHANGED aux

(***************************************************************************)
(* /user/dashboard: the caller's tickets as to_dict() renders them         *)
(***************************************************************************)
UserDashboard(u) ==
    /\ Authenticated(u)
    /\ last' = Response("user_dashboard", u, 0, <<>>,
                        [i \in {j \in DOMAIN tickets : tickets[j].user_id = u} |->
                            sla_state(tickets[i], now)])
    /\ sent' = <<>>
    /\ UNCHANGED <<users, tickets, comments, attachments, history, sessions, now>>
    /\ UNCHANGED aux

(***************************************************************************)
(* A direct call of process_assignee_update on a stored ticket             *)
(***************************************************************************)
ProcessAssignee(id, assignee_val, assignee_custom) ==
    LET r == process_assignee_update(tickets[id], assignee_val, assignee_custom, users) IN
    /\ id \in DOMAIN tickets
    /\ tickets' = [tickets EXCEPT ![id] = r.ticket]
    /\ last' = Response("process_assignee_update", 0, id,
                        [assignee_val |-> assignee_val, assignee_custom |-> assignee_custom],
                        [assignee_obj |-> r.assignee_obj, new_display |-> r.new_display,
                         assign_status |-> r.assign_status])
    /\ sent' = <<>>
    /\ UNCHANGED <<users, comments, attachments, history, sessions, now>>
    /\ UNCHANGED aux

(***************************************************************************)
(* Inputs                                                                  *)
(***************************************************************************)
Passw0rd == <<"P", "a", "s", "s", "w", "0", "r", "d">>

Emails == {"a@x.com", "b@x.com"}
NameOf(email) == IF email = "a@x.com" THEN "Ann" ELSE IF email = "b@x.com" THEN "Bob" ELSE "System Admin"

RegisterForms ==
    {[name |-> NameOf(e), email |-> e, password |-> Passw0rd, password_confirm |-> Passw0rd] : e \in Emails}

NewTicketForms == {[priority |-> "Medium", attachment |-> a] : a \in {"", "a.pdf"}}

\* The portal in service: the default admin plus two registered users, all
\* three logged in (reached from Init by two registrations and three logins)
InService ==
    /\ users = Insert(Insert(create_app(<<>>),
                             NewUser("Ann", "a@x.com", "user", TRUE, Passw0rd)),
                      NewUser("Bob", "b@x.com", "user", TRUE, Passw0rd))
    /\ tickets = <<>>
    /\ comments = <<>>
    /\ attachments = <<>>
    /\ history = <<>>
    /\ sessions = {1, 2, 3}
    /\ now = 0
    /\ sent = <<>>
    /\ last = Response("login", 3, 0, [email |-> "b@x.com", password |-> Passw0rd, role |-> "user"], "ok")
    /\ AuxInit

(***************************************************************************)
(* Ticket numbering: creations, month changes and user deletions           *)
(***************************************************************************)
NumberingNext ==
    \/ Tick(TicksPerMonth)
    \/ \E u \in DOMAIN users : CreateTicket(u, [priority |-> "Medium", attachment |-> ""])
    \/ \E u \in DOMAIN users, x \in DOMAIN users : AdminUserDelete(u, x)

NumberingSpec == InService /\ [][NumberingNext]_vars

(***************************************************************************)
(* Properties of the ticket numbers                                        *)
(***************************************************************************)
Suffix(t) == ParseDec(LastField(t.ticket_no))
SameMonth(a, b) == MonthIndex(a.created_at) = MonthIndex(b.created_at)
Created == DOMAIN tickets' \ DOMAIN tickets

\* Among the existing tickets a larger id is a later creation (a new row gets
\* an id above every id in use).
SuffixIncreasing ==
    \A i, j \in DOMAIN tickets :
        (i < j /\ SameMonth(tickets[i], tickets[j])) =>
            /\ tickets[i].ticket_no # tickets[j].ticket_no
            /\ Suffix(tickets[i]) < Suffix(tickets[j])

FirstOfMonthIsOne ==
    \A k \in Created :
        (\A i \in DOMAIN tickets : ~SameMonth(tickets[i], tickets'[k])) =>
            LastField(tickets'[k].ticket_no) = <<"0", "0", "0", "1">>

\* C1: tickets created through the route, with user deletions in between:
\* two existing tickets of one calendar month have different numbers whose
\* suffix grows in creation order, and the first ticket created in a month
\* without tickets gets suffix 0001.
C1_MonthlyNumbering == []SuffixIncreasing /\ [][FirstOfMonthIsOne]_vars

C1_Witness ==
    /\ Cardinality(DOMAIN users) < 3
    /\ \E i, j, k \in DOMAIN tickets :
          /\ i < j /\ j < k
          /\ SameMonth(tickets[i], tickets[j])
          /\ Suffix(tickets[j]) = 2
          /\ MonthIndex(tickets[k].created_at) > MonthIndex(tickets[j].created_at)
          /\ Suffix(tickets[k]) = 1

\* C2: every assigned ticket number reads IT-YYYYMM-NNNN, YYYYMM the four-digit
\* year and two-digit month of creation, NNNN four digits.
C2_TicketNoFormat ==
    \A i \in DOMAIN tickets :
        LET no == tickets[i].ticket_no IN
        /\ Len(no) = 14
        /\ SubSeq(no, 1, 3) = TicketPrefix
        /\ SubSeq(no, 4, 9) = StrftimeYearMonth(tickets[i].created_at)
        /\ no[10] = "-"
        /\ IsNumeral(SubSeq(no, 11, 14))

(***************************************************************************)
(* Assignment resolution: process_assignee_update applied to a ticket      *)
(***************************************************************************)
\* One ticket filed by Ann (user 2) at time 0 in the portal in service
OneTicket ==
    /\ users = Insert(Insert(create_app(<<>>),
                             NewUser("Ann", "a@x.com", "user", TRUE, Passw0rd)),
                      NewUser("Bob", "b@x.com", "user", TRUE, Passw0rd))
    /\ tickets = Insert(<<>>, NewTicket(RouteTicketNo(<<>>, 0), 2, "Medium", "Not Open Yet",
                                        None, SLA_HOURS, 0))
    /\ comments = <<>>
    /\ attachments = <<>>
    /\ history = <<HistoryEntry(1, Some(2), "Ticket created")>>
    /\ sessions = {1, 2, 3}
    /\ now = 0
    /\ sent = email_ticket_created([email |-> "a@x.com"], 1)
    /\ last = Response("create_ticket", 2, 1, [priority |-> "Medium", attachment |-> ""], "ok")
    /\ AuxInit

\* Two tickets, filed by Ann (user 2) and then by Bob (user 3) at time 0
TwoTickets ==
    /\ users = Insert(Insert(create_app(<<>>),
                             NewUser("Ann", "a@x.com", "user", TRUE, Passw0rd)),
                      NewUser("Bob", "b@x.com", "user", TRUE, Passw0rd))
    /\ tickets = LET first == Insert(<<>>, NewTicket(RouteTicketNo(<<>>, 0), 2, "Medium",
                                                     "Not Open Yet", None, SLA_HOURS, 0))
                 IN Insert(first, NewTicket(RouteTicketNo(first, 0), 3, "Medium",
                                            "Not Open Yet", None, SLA_HOURS, 0))
    /\ comments = <<>>
    /\ attachments = <<>>
    /\ history = <<HistoryEntry(1, Some(2), "Ticket created"), HistoryEntry(2, Some(3), "Ticket created")>>
    /\ sessions = {1, 2, 3}
    /\ now = 0
    /\ sent = email_ticket_created([email |-> "b@x.com"], 2)
    /\ last = Response("create_ticket", 3, 2, [priority |-> "Medium", attachment |-> ""], "ok")
    /\ AuxInit

AssigneeValues == {"", "assigned", "queue", "2", " 2", "3", "9", "bob"}
CustomTexts == {"", "Jane from Vendor", "queue"}

AssignNext ==
    \/ \E id \in DOMAIN tickets, v \in AssigneeValues, c \in CustomTexts : ProcessAssignee(id, v, c)
    \/ AdminUserDelete(1, 3)

AssignSpec == TwoTickets /\ [][AssignNext]_vars

\* The outcome the precedence list prescribes for (v, c)
C4_Expected(v, c) ==
    IF v = "" /\ c = "" THEN [display |-> "Unassigned", tag |-> "Unassigned", user |-> None]
    ELSE IF v = "assigned" THEN [display |-> "Assigned", tag |-> "Assigned", user |-> None]
    ELSE IF v = "queue" THEN [display |-> "In Queue", tag |-> "In Queue", user |-> None]
    ELSE IF c # "" THEN [display |-> c, tag |-> "Custom", user |-> None]
    ELSE IF \E n \in DOMAIN users : ParsesAsInt(v) /\ IntOf(v) = n
         THEN [display |-> users[IntOf(v)].name, tag |-> "Engineer", user |-> Some(IntOf(v))]
    ELSE [display |-> v, tag |-> "Custom", user |-> None]

\* C4: after a call of process_assignee_update the returned display and tag
\* are those of the first matching rule (empty, 'assigned', 'queue', custom
\* text, id of an existing user, raw value); the ticket's assignee reference
\* is the user in the Engineer outcome and empty otherwise, and its assignee
\* name and assignment tag equal the returned display and tag.
C4_AssigneePrecedence ==
    last.op = "process_assignee_update" =>
        LET e == C4_Expected(last.form.assignee_val, last.form.assignee_custom)
            t == tickets[last.target]
        IN /\ last.result.new_display = e.display
           /\ last.result.assign_status = e.tag
           /\ last.result.assignee_obj = e.user
           /\ t.assignee_id = e.user
           /\ t.assignee_name = Some(e.display)
           /\ t.assign_status = Some(e.tag)

\* A reserved word wins over a custom text, after user 3 was deleted
C4_Witness ==
    /\ last.op = "process_assignee_update"
    /\ last.form = [assignee_val |-> "queue", assignee_custom |-> "Jane from Vendor"]
    /\ last.result.assign_status = "In Queue"
    /\ 3 \notin DOMAIN users

(***************************************************************************)
(* SLA state: tickets and clock readings around the thresholds             *)
(***************************************************************************)
DueAtCreation == compute_due_date(SLA_HOURS, 0)
Near(t) == {t + k : k \in -(Resolution + 1) .. (Resolution + 1)}

SlaInit ==
    /\ users = Insert(Insert(create_app(<<>>),
                             NewUser("Ann", "a@x.com", "user", TRUE, Passw0rd)),
                      NewUser("Bob", "b@x.com", "user", TRUE, Passw0rd))
    /\ \E st \in TICKET_STATUSES \cup {"Pending"},
          due \in {None, Some(DueAtCreation)},
          closed \in {None} \cup {Some(DueAtCreation + k) : k \in {-1, 0, 1, Resolution}} :
          tickets = Insert(<<>>, [NewTicket(RouteTicketNo(<<>>, 0), 2, "Medium", st, None, SLA_HOURS, 0)
                                      EXCEPT !.due_date = due, !.closed_at = closed])
    /\ comments = <<>>
    /\ attachments = <<>>
    /\ history = <<HistoryEntry(1, Some(2), "Ticket created")>>
    /\ sessions = {1, 2, 3}
    /\ now \in {0} \cup Near(DueAtCreation - SixHours * Resolution) \cup Near(DueAtCreation)
    /\ sent = <<>>
    /\ last = Response("boot", 0, 0, <<>>, "ok")
    /\ AuxInit

SlaNext == \E u \in DOMAIN users : UserDashboard(u)

SlaSpec == SlaInit /\ [][SlaNext]_vars

\* sla_state as the rule states it, on the exact difference due_date - now
\* (d is the difference in clock ticks, Resolution ticks to the second)
C5_Stated(t, clock) ==
    IF t.status \in {"Closed", "Resolved"} THEN
        IF IsNone(t.closed_at) \/ IsNone(t.due_date) \/ Val(t.closed_at) <= Val(t.due_date)
        THEN Some("Met") ELSE Some("Breached")
    ELSE IF t.status = "Not Open Yet" \/ IsNone(t.due_date) THEN None
    ELSE LET d == Val(t.due_date) - clock IN
         IF d < 0 THEN Some("Breached")
         ELSE IF d <= SixHours * Resolution THEN Some("At Risk")
         ELSE Some("Met")

\* C5: the SLA state shown for every ticket equals the stated rule: by
\* closed_at against due_date for Closed/Resolved, no value for Not Open Yet
\* or a missing due date, else Breached when due_date - now < 0 s, At Risk
\* when 0 <= due_date - now <= 21600 s, Met when more remains.
C5_SlaState ==
    last.op = "user_dashboard" =>
        \A i \in DOMAIN last.result : last.result[i] = C5_Stated(tickets[i], now)

(***************************************************************************)
(* Ticket updates through /ticket/<id> and /admin/ticket/<id>/update       *)
(***************************************************************************)
UpdateForms ==
    {[status |-> st, priority |-> "", assignee_id |-> a, assignee_name_custom |-> c,
      message |-> "", comment |-> "", attachment |-> ""] :
        st \in {"", "Open", "Re-Open", "In Progress", "Closed"},
        a \in {Absent, "", "3", "queue"},
        c \in {"", "Jane from Vendor"}}

UpdateNext ==
    \/ \E u \in {1, 2}, id \in DOMAIN tickets, f \in UpdateForms : TicketView(u, id, f)
    \/ \E u \in {1, 2}, id \in DOMAIN tickets, f \in UpdateForms : AdminTicketUpdate(u, id, f)

UpdateSpec == OneTicket /\ [][UpdateNext]_vars

\* The number of history entries with the given event
CountEvents(h, event) == Len(SelectSeq(h, LAMBDA e : e.event = event))

\* The entries the step appends to the history
Gained == SubSeq(history', Len(history) + 1, Len(history'))

\* The step is a served update of ticket id that changes the displayed assignee
AssignmentChanged(id) ==
    /\ last'.op \in {"ticket_view", "admin_ticket_update"}
    /\ last'.result = "ok"
    /\ last'.target = id
    /\ id \in DOMAIN tickets /\ id \in DOMAIN tickets'
    /\ AssigneeDisplay(tickets'[id], users) # AssigneeDisplay(tickets[id], users)

\* The status the ticket has once the submission's own status field is applied
StatusAtAssignment(id) ==
    IF last'.form.status # "" THEN last'.form.status ELSE tickets[id].status

\* C3: in both update routes, a submission that changes the assignment of a
\* ticket whose status is Open, Re-Open or Not Open Yet leaves the ticket In
\* Progress with one assignment-change and one auto-status-change entry added;
\* when the status is In Progress the status stays and only the
\* assignment-change entry is added.
C3_AutoInProgress ==
    [][\A id \in DOMAIN tickets :
          AssignmentChanged(id) =>
              /\ StatusAtAssignment(id) \in {"Open", "Re-Open", "Not Open Yet"} =>
                    /\ tickets'[id].status = "In Progress"
                    /\ CountEvents(Gained, "Assignee changed") = 1
                    /\ CountEvents(Gained, "Auto status changed") = 1
              /\ StatusAtAssignment(id) = "In Progress" =>
                    /\ tickets'[id].status = "In Progress"
                    /\ CountEvents(Gained, "Assignee changed") = 1
                    /\ CountEvents(Gained, "Auto status changed") = 0]_vars

(***************************************************************************)
(* Authentication: registrations, logins, logouts, accounts switched off   *)
(***************************************************************************)
WrongPassword == <<"l", "e", "t", "m", "e", "i", "n", "1">>

\* The edit form as rendered for user x, with the active box set to b
ActiveForm(x, b) ==
    [name |-> users[x].name, email |-> users[x].email, role |-> users[x].role,
     active |-> b, password |-> <<>>]

AuthNext ==
    \/ \E f \in RegisterForms : Register(f)
    \/ \E e \in Emails \cup {ADMIN_EMAIL, "nobody@x.com"},
          pw \in {Passw0rd, AdminPassword, WrongPassword},
          mode \in {"user", "admin"} : Login(e, pw, mode)
    \/ \E u \in DOMAIN users : Logout(u)
    \/ \E u \in DOMAIN users, x \in DOMAIN users, b \in BOOLEAN : AdminUserEdit(u, x, ActiveForm(x, b))

AuthSpec == Init /\ [][AuthNext]_vars

\* The accounts the submitted credentials fit: the email, within role admin
\* in admin mode, the password against the stored hash, the active flag
Admitted(form) ==
    {i \in DOMAIN users :
        /\ users[i].email = form.email
        /\ form.role = "admin" => users[i].role = "admin"
        /\ check_password_hash(users[i].password_hash, form.password)
        /\ users[i].active}

\* C6: a login request starts a session for a user exactly when a user with
\* the submitted email exists (of role admin in admin mode), the password
\* matches the stored hash and the account is active; otherwise the sessions
\* are unchanged and the outcome is the one generic invalid-credentials reply.
C6_LoginIffActiveMatch ==
    [][last'.op = "login" =>
          IF Admitted(last'.form) # {}
          THEN /\ last'.result = "ok"
               /\ last'.user \in Admitted(last'.form)
               /\ sessions' = sessions \cup {last'.user}
          ELSE /\ last'.result = "invalid_credentials"
               /\ sessions' = sessions]_vars

\* Bob, switched off and logged out, was refused with his correct password
C6_Witness ==
    /\ last.op = "login"
    /\ last.result = "invalid_credentials"
    /\ \E i \in DOMAIN users \ sessions :
          /\ users[i].email = last.form.email
          /\ check_password(users[i], last.form.password)
          /\ ~users[i].active

(***************************************************************************)
(* Access control: every route called by every logged-in user              *)
(***************************************************************************)
AccessForms ==
    {[status |-> st, priority |-> "", assignee_id |-> a, assignee_name_custom |-> "",
      message |-> m, comment |-> m, attachment |-> file] :
        st \in {"Closed"}, a \in {"3"}, m \in {"hello"}, file \in {"a.pdf"}}

NewUserForms ==
    {[name |-> "Bob", email |-> "b@x.com", role |-> "assignee", active |-> TRUE, password |-> <<>>]}

AccessNext ==
    \/ \E u \in DOMAIN users : AdminDashboard(u)
    \/ \E u \in DOMAIN users : Reports(u)
    \/ \E u \in DOMAIN users : ReportsChartData(u)
    \/ \E u \in DOMAIN users : AdminAttachments(u)
    \/ \E u \in DOMAIN users : AdminCheckNew(u)
    \/ \E u \in DOMAIN users : AdminEmailLogsApi(u)
    \/ \E u \in DOMAIN users, id \in DOMAIN tickets : AdminTicketView(u, id)
    \/ \E u \in DOMAIN users : AdminTickets(u)
    \/ \E u \in DOMAIN users, id \in DOMAIN tickets, f \in AccessForms : AdminTicketUpdate(u, id, f)
    \/ \E u \in DOMAIN users : AdminUsersList(u)
    \/ \E u \in DOMAIN users, f \in NewUserForms : AdminUsers(u, f)
    \/ \E u \in DOMAIN users, x \in DOMAIN users \ {1, 2}, b \in BOOLEAN :
          AdminUserEdit(u, x, ActiveForm(x, b))
    \/ \E u \in DOMAIN users, x \in DOMAIN users \ {2} : AdminUserDelete(u, x)
    \/ \E u \in DOMAIN users : AdminSlaDailyReport(u)
    \/ \E u \in DOMAIN users : AdminEmailTest(u)
    \/ \E u \in DOMAIN users, id \in DOMAIN tickets, f \in AccessForms : TicketView(u, id, f)

AccessSpec == OneTicket /\ [][AccessNext]_vars

AdminRoutes ==
    {"admin_dashboard", "reports", "reports_chart_data", "admin_attachments", "admin_check_new",
     "admin_email_logs_api", "admin_ticket_view", "admin_tickets", "admin_ticket_update",
     "admin_users_list", "admin_users", "admin_user_edit", "admin_user_delete",
     "admin_sla_daily_report", "admin_email_test"}

\* The request answered by this step came from a user without the role the
\* route requires
LacksRole ==
    /\ last'.user \in DOMAIN users
    /\ \/ last'.op \in AdminRoutes /\ users[last'.user].role # "admin"
       \/ /\ last'.op = "ticket_view"
          /\ last'.target \in DOMAIN tickets
          /\ users[last'.user].role \notin {"admin", "assignee"}
          /\ tickets[last'.target].user_id # last'.user

\* C7: a request by a non-admin on an administrative route, or on the
\* ticket-detail route by a user who is neither the ticket's creator nor of
\* role admin or assignee, leaves users, tickets, comments, attachments and
\* history as they were and sends (and logs) no email.
C7_UnauthorizedChangesNothing ==
    [][LacksRole =>
          /\ users' = users /\ tickets' = tickets /\ comments' = comments
          /\ attachments' = attachments /\ history' = history
          /\ sent' = <<>>]_vars

\* Bob, a plain user, posted a full update to Ann's ticket and was turned away
C7_Witness ==
    /\ last.op = "ticket_view"
    /\ last.user = 3 /\ 3 \in DOMAIN users /\ users[3].role = "user"
    /\ last.target \in DOMAIN tickets /\ tickets[last.target].user_id = 2
    /\ last.form.status = "Closed" /\ last.form.message = "hello" /\ last.form.attachment = "a.pdf"
    /\ last.result = "forbidden"

(***************************************************************************)
(* db_init.py: create_sample_data (python db_init.py seed)                 *)
(***************************************************************************)
TestPassword == <<"T", "e", "s", "t", "@", "1", "2", "3", "4">>

users_data ==
    <<[name |-> "John Smith", email |-> "john@example.com", role |-> "user"],
      [name |-> "Jane Doe", email |-> "jane@example.com", role |-> "user"],
      [name |-> "Engineer One", email |-> "engineer1@example.com", role |-> "engineer"],
      [name |-> "Engineer Two", email |-> "engineer2@example.com", role |-> "engineer"],
      [name |-> "Support Manager", email |-> "manager@example.com", role |-> "assignee"]>>

\* user and assignee are positions in users_data (0: no assignee)
tickets_data ==
    <<[priority |-> "High", status |-> "Open", user |-> 1, assignee |-> 3, sla_hours |-> 24],
      [priority |-> "Medium", status |-> "In Progress", user |-> 2, assignee |-> 4, sla_hours |-> 48],
      [priority |-> "Critical", status |-> "Open", user |-> 1, assignee |-> 5, sla_hours |-> 4],
      [priority |-> "Medium", status |-> "Pending", user |-> 2, assignee |-> 3, sla_hours |-> 48],
      [priority |-> "Low", status |-> "On Hold", user |-> 1, assignee |-> 0, sla_hours |-> 72]>>

\* ticket and user are positions in tickets_data and users_data
comments_data ==
    <<[ticket |-> 1, user |-> 3, message |-> "I've ordered a replacement display."],
      [ticket |-> 1, user |-> 1, message |-> "Thank you!"],
      [ticket |-> 2, user |-> 4, message |-> "Checking license server."],
      [ticket |-> 3, user |-> 5, message |-> "Password reset link has been sent."]>>

RECURSIVE InsertAll(_, _)
InsertAll(table, rows) ==
    IF rows = <<>> THEN table ELSE InsertAll(Insert(table, Head(rows)), Tail(rows))

RECURSIVE SeedHistory(_, _, _)
SeedHistory(k, uid, tid) ==
    IF k > Len(tickets_data) THEN <<>>
    ELSE <<HistoryEntry(tid[k], Some(uid[tickets_data[k].user]), "Ticket created")>>
         \o (IF tickets_data[k].assignee # 0 THEN <<HistoryEntry(tid[k], None, "Assigned")>> ELSE <<>>)
         \o SeedHistory(k + 1, uid, tid)

create_sample_data ==
    LET u0 == NextId(users) - 1
        t0 == NextId(tickets) - 1
        uid == [k \in 1..Len(users_data) |-> u0 + k]
        tid == [k \in 1..Len(tickets_data) |-> t0 + k]
        new_users == [k \in 1..Len(users_data) |->
                         NewUser(users_data[k].name, users_data[k].email, users_data[k].role,
                                 TRUE, TestPassword)]
        new_tickets == [k \in 1..Len(tickets_data) |->
                           LET d == tickets_data[k] IN
                           generate_ticket_no(
                               NewTicket(TicketPrefix \o StrftimeYearMonth(now) \o <<"-">> \o Format04d(k),
                                         uid[d.user], d.priority, d.status,
                                         IF d.assignee = 0 THEN None ELSE Some(uid[d.assignee]),
                                         d.sla_hours, now),
                               tickets, now)]
        new_comments == [k \in 1..Len(comments_data) |->
                            [ticket_id |-> tid[comments_data[k].ticket],
                             user_id |-> uid[comments_data[k].user],
                             prefix |-> "", message |-> comments_data[k].message]]
    IN
    /\ IF \E i \in DOMAIN users : users[i].role = "user"
       THEN /\ UNCHANGED <<users, tickets, comments, history>>
            /\ last' = Response("create_sample_data", 0, 0, <<>>, "skipped")
       ELSE /\ users' = InsertAll(users, new_users)
            /\ tickets' = InsertAll(tickets, new_tickets)
            /\ comments' = comments \o new_comments
            /\ history' = history \o SeedHistory(1, uid, tid)
            /\ last' = Response("create_sample_data", 0, 0, <<>>, "ok")
    /\ sent' = <<>>
    /\ UNCHANGED <<attachments, sessions, now>>
    /\ UNCHANGED aux

(***************************************************************************)
(* Ticket status: creations, updates by both routes, and seeding           *)
(***************************************************************************)
StatusForms ==
    {[status |-> st, priority |-> "", assignee_id |-> a, assignee_name_custom |-> "",
      message |-> "", comment |-> "", attachment |-> ""] :
        st \in TICKET_STATUSES, a \in {Absent, "1"}}

StatusNext ==
    \/ Login(ADMIN_EMAIL, AdminPassword, "admin")
    \/ \E u \in DOMAIN users : CreateTicket(u, [priority |-> "Medium", attachment |-> ""])
    \/ \E u \in DOMAIN users, id \in DOMAIN tickets, f \in StatusForms : TicketView(u, id, f)
    \/ \E u \in DOMAIN users, id \in DOMAIN tickets, f \in StatusForms : AdminTicketUpdate(u, id, f)
    \/ create_sample_data

StatusSpec == Init /\ [][StatusNext]_vars

\* C8: in every reachable state every ticket's status is one of Not Open
\* Yet, Open, In Progress, Re-Open, Resolved, Closed.
C8_StatusVocabulary ==
    \A i \in DOMAIN tickets : tickets[i].status \in TICKET_STATUSES

(***************************************************************************)
(* User deletion: tickets with comments, files and assignments, then       *)
(* deletions of their creators, commenters and assignees                   *)
(***************************************************************************)
BlankForm ==
    [status |-> "", priority |-> "", assignee_id |-> Absent, assignee_name_custom |-> "",
     message |-> "", comment |-> "", attachment |-> ""]

DeletionForms ==
    {[BlankForm EXCEPT !.assignee_id = "3"],
     [BlankForm EXCEPT !.message = "hello", !.comment = "hello", !.attachment = "a.pdf"]}

DeletionNext ==
    \/ \E u \in DOMAIN users, id \in DOMAIN tickets, f \in DeletionForms : TicketView(u, id, f)
    \/ \E u \in DOMAIN users, id \in DOMAIN tickets, f \in DeletionForms : AdminTicketUpdate(u, id, f)
    \/ \E u \in DOMAIN users, x \in DOMAIN users : AdminUserDelete(u, x)

DeletionSpec == TwoTickets /\ [][DeletionNext]_vars

\* C9: when an administrator's delete request for user x succeeds, x is gone,
\* no ticket created by x, no comment written by x and no history entry with
\* actor x is left, and every ticket x did not create (among them the ones x
\* was assigned to) is still there; a delete request aimed at the requester's
\* own account does not succeed and changes nothing.
C9_UserDeletion ==
    [][last'.op = "admin_user_delete" =>
          LET x == last'.target IN
          /\ last'.result = "ok" =>
                /\ x \notin DOMAIN users'
                /\ \A i \in DOMAIN tickets' : tickets'[i].user_id # x
                /\ \A k \in DOMAIN comments' : comments'[k].user_id # x
                /\ \A k \in DOMAIN history' : history'[k].user_id # Some(x)
                /\ \A i \in DOMAIN tickets : tickets[i].user_id # x => i \in DOMAIN tickets'
          /\ last'.user = x =>
                /\ last'.result # "ok"
                /\ users' = users /\ tickets' = tickets /\ comments' = comments
                /\ attachments' = attachments /\ history' = history]_vars

\* Bob was deleted: his own ticket 2 is gone, Ann's ticket 1, on which he was
\* the assigned engineer, is still there with the reference cleared
C9_Witness ==
    /\ last.op = "admin_user_delete" /\ last.result = "ok" /\ last.target = 3
    /\ 2 \notin DOMAIN tickets
    /\ 1 \in DOMAIN tickets
    /\ tickets[1].assign_status = Some("Engineer")
    /\ tickets[1].assignee_name = Some("Bob")
    /\ tickets[1].assignee_id = None

\* C10: every comment, attachment and history entry references a ticket that
\* exists.
C10_NoOrphanRows ==
    /\ \A k \in DOMAIN comments : comments[k].ticket_id \in DOMAIN tickets
    /\ \A k \in DOMAIN attachments : attachments[k].ticket_id \in DOMAIN tickets
    /\ \A k \in DOMAIN history : history[k].ticket_id \in DOMAIN tickets

(***************************************************************************)
(* Concurrent user administration: a request runs its checks in one step   *)
(* and commits in a later one, so other requests interleave between the    *)
(* email look-up of a handler and its commit                               *)
(***************************************************************************)
Request(op, u, target, form) == [op |-> op, u |-> u, target |-> target, form |-> form]

MaxPending == 2

Begin(r) ==
    /\ r \notin pending
    /\ Cardinality(pending) < MaxPending
    /\ pending' = pending \cup {r}
    /\ UNCHANGED <<users, tickets, comments, attachments, history, sessions, now, sent, last>>
    /\ UNCHANGED <<config, email_logs, notification_reads, threads, jobs>>

\* register() up to and including the look-up of the email
RegisterBegin(form) ==
    /\ RegisterFormValid(form)
    /\ Begin(Request("register", 0, 0, form))

\* admin_users() up to and including the look-up of the email
AdminUsersBegin(u, form) ==
    /\ Authenticated(u)
    /\ IsAdmin(u)
    /\ IsNone(UserByEmail(form.email, users))
    /\ Begin(Request("admin_users", u, 0, form))

\* admin_user_edit() up to the assignments to the loaded user
AdminUserEditBegin(u, user_id, form) ==
    /\ Authenticated(u)
    /\ IsAdmin(u)
    /\ user_id \in DOMAIN users
    /\ Begin(Request("admin_user_edit", u, user_id, form))

\* The rows the request asks the database to commit
Requested(r) ==
    IF r.op = "register"
    THEN Insert(users, NewUser(r.form.name, r.form.email, "user", TRUE, r.form.password))
    ELSE IF r.op = "admin_users"
    THEN Insert(users, NewUser(r.form.name, r.form.email, r.form.role, r.form.active,
                               IF r.form.password # <<>> THEN r.form.password ELSE DefaultPassword))
    ELSE LET edited == [users[r.target] EXCEPT !.name = r.form.name, !.email = r.form.email,
                                               !.role = r.form.role, !.active = r.form.active]
         IN [users EXCEPT ![r.target] =
                IF r.form.password # <<>> THEN set_password(edited, r.form.password) ELSE edited]

\* db.session.commit() of a request begun earlier, and the handler's except
\* branch (rollback) when the commit raises
Commit(r) ==
    /\ r \in pending
    /\ r.op # "admin_user_edit" => NextId(users) <= MaxUsers
    /\ pending' = pending \ {r}
    /\ IF r.op = "admin_user_edit" /\ r.target \notin DOMAIN users
       THEN \* the row was deleted meanwhile: the UPDATE matches no row
            /\ users' = users
            /\ last' = Response(r.op, r.u, r.target, r.form, "failed")
       ELSE /\ users' = CommitUsers(users, Requested(r))
            /\ last' = Response(r.op, r.u,
                                IF r.op = "admin_user_edit" THEN r.target
                                ELSE IF UniqueEmails(Requested(r)) THEN NextId(users) ELSE 0,
                                r.form,
                                IF UniqueEmails(Requested(r)) THEN "ok" ELSE "failed")
    /\ sent' = <<>>
    /\ UNCHANGED <<tickets, comments, attachments, history, sessions, now>>
    /\ UNCHANGED <<config, email_logs, notification_reads, threads, jobs>>

\* The admin alone, logged in
AdminOnly ==
    /\ users = create_app(<<>>)
    /\ tickets = <<>>
    /\ comments = <<>>
    /\ attachments = <<>>
    /\ history = <<>>
    /\ sessions = {1}
    /\ now = 0
    /\ sent = <<>>
    /\ last = Response("login", 1, 0, [email |-> ADMIN_EMAIL, password |-> AdminPassword, role |-> "admin"], "ok")
    /\ AuxInit

EditForms ==
    {[name |-> NameOf(e), email |-> e, role |-> "user", active |-> TRUE, password |-> <<>>] :
        e \in Emails}

ConcurrentNext ==
    \/ \E f \in RegisterForms : Register(f)
    \/ \E f \in RegisterForms : RegisterBegin(f)
    \/ \E u \in DOMAIN users, f \in EditForms : AdminUsers(u, f)
    \/ \E u \in DOMAIN users, f \in EditForms : AdminUsersBegin(u, f)
    \/ \E u \in DOMAIN users, x \in DOMAIN users \ {1}, f \in EditForms : AdminUserEdit(u, x, f)
    \/ \E u \in DOMAIN users, x \in DOMAIN users \ {1}, f \in EditForms : AdminUserEditBegin(u, x, f)
    \/ \E u \in DOMAIN users, x \in DOMAIN users \ {1} : AdminUserDelete(u, x)
    \/ \E r \in pending : Commit(r)

ConcurrentSpec == AdminOnly /\ [][ConcurrentNext]_vars

\* The step is the response to a request on the user table
UserRequestAnswered ==
    /\ last'.op \in {"register", "admin_users", "admin_user_edit"}
    /\ last' # last \/ Cardinality(pending') < Cardinality(pending)

\* The answered request asked for an email another row holds
WouldDuplicate ==
    \E i \in DOMAIN users :
        /\ users[i].email = last'.form.email
        /\ last'.op = "admin_user_edit" => i # last'.target

\* C11: no two user rows ever hold the same email, however registrations,
\* admin user creations and admin user edits interleave, and a request that
\* would produce a duplicate is rejected and leaves the user table as it was
C11_UniqueEmail ==
    /\ []UniqueEmails(users)
    /\ [][(UserRequestAnswered /\ WouldDuplicate) => (last'.result # "ok" /\ users' = users)]_vars

\* Two requests for one email were both past their look-up; the first
\* committed and the commit of the second was refused
C11_Witness ==
    /\ last.op \in {"register", "admin_users"}
    /\ last.result = "failed"
    /\ \E i \in DOMAIN users : users[i].email = last.form.email
    /\ UniqueEmails(users)

(***************************************************************************)
(* Email delivery and the email log (utils.py): send_email either logs a   *)
(* failure at once or starts a thread; the thread sends and then logs      *)
(***************************************************************************)
PreviewChars == 480
MaxMails == 2

Text(n, c) == [i \in 1..n |-> c]

\* x or y on Python strings: the empty string and None are both false
Or(x, y) == IF Len(x) > 0 THEN x ELSE y

\* A preview that keeps the whole body
PreviewUncut(preview_source) == preview_source

\* The one character U+2026 (horizontal ellipsis)
Ellipsis == "..."

\* (preview_source[:480] + Ellipsis) if len(preview_source) > 480 else preview_source
Preview(preview_source) ==
    IF Len(preview_source) > PreviewChars
    THEN SubSeq(preview_source, 1, PreviewChars) \o <<Ellipsis>>
    ELSE preview_source

EmailLog(to_email, html_body, status, extra_error) ==
    [to_email |-> to_email, body_preview |-> Preview(Or(html_body, <<>>)),
     status |-> status, error_message |-> extra_error]

_log_email(L, to_email, html_body, status, extra_error) ==
    Append(L, EmailLog(to_email, html_body, status, extra_error))

\* "Your email client does not support HTML."
DefaultTextBody == Text(40, "t")

Message(to, html_body, text_body) ==
    [recipients |-> to, body |-> Or(text_body, DefaultTextBody), html |-> html_body]

\* One call of send_email; mail is what current_app.extensions.get("mail")
\* returns, TRUE for an extension object and FALSE for None.  The call
\* answers "queued" where the code returns True and "unavailable" where it
\* returns False
send_email(to, html_body, text_body, mail) ==
    /\ Len(email_logs) + Len(threads) < MaxMails
    /\ IF ~mail
       THEN /\ email_logs' = _log_email(email_logs, to, Or(html_body, text_body), "FAILED",
                                        Some("Flask-Mail not initialized"))
            /\ threads' = threads
            /\ last' = Response("send_email", 0, 0, Message(to, html_body, text_body), "unavailable")
       ELSE /\ threads' = Append(threads, Message(to, html_body, text_body))
            /\ email_logs' = email_logs
            /\ last' = Response("send_email", 0, 0, Message(to, html_body, text_body), "queued")
    /\ UNCHANGED <<users, tickets, comments, attachments, history, sessions, now, sent>>
    /\ UNCHANGED <<config, notification_reads, pending, jobs>>

\* The thread of message i runs; raised is the exception text of mail.send,
\* None when the transport accepted the message
send_async_email(i, mail, raised) ==
    /\ i \in DOMAIN threads
    /\ LET msg == threads[i] IN
       /\ email_logs' = IF ~mail
                        THEN _log_email(email_logs, msg.recipients, Or(msg.html, msg.body), "FAILED",
                                        Some("Flask-Mail not initialized"))
                        ELSE _log_email(email_logs, msg.recipients, Or(msg.html, msg.body),
                                        IF IsNone(raised) THEN "SUCCESS" ELSE "FAILED", raised)
       /\ last' = Response("send_async_email", 0, 0, msg,
                           IF ~mail THEN "unavailable" ELSE IF IsNone(raised) THEN "accepted" ELSE "raised")
    /\ threads' = [j \in 1..(Len(threads) - 1) |-> IF j < i THEN threads[j] ELSE threads[j + 1]]
    /\ UNCHANGED <<users, tickets, comments, attachments, history, sessions, now, sent>>
    /\ UNCHANGED <<config, notification_reads, pending, jobs>>

HtmlBodies == {Text(n, "h") : n \in {0, PreviewChars, PreviewChars + 1}}
TextBodies == {Text(n, "p") : n \in {0, PreviewChars + 2}}

MailNext ==
    \/ \E html \in HtmlBodies, text \in TextBodies, mail \in BOOLEAN :
          send_email("a@x.com", html, text, mail)
    \/ \E i \in DOMAIN threads, mail \in BOOLEAN, raised \in {None, Some("Connection refused")} :
          send_async_email(i, mail, raised)

MailSpec == AdminOnly /\ [][MailNext]_vars

\* The body the log row of the answered call or thread is made from
LoggedBody ==
    IF last'.op = "send_email"
    THEN Or(last'.form.html, IF last'.form.body = DefaultTextBody THEN <<>> ELSE last'.form.body)
    ELSE Or(last'.form.html, last'.form.body)

NewLog == email_logs'[Len(email_logs')]

\* The new row reports the outcome of the transport and previews the body
RowMatches ==
    /\ NewLog.to_email = last'.form.recipients
    /\ NewLog.status = (IF last'.result = "accepted" THEN "SUCCESS" ELSE "FAILED")
    /\ NewLog.status = "FAILED" => ~IsNone(NewLog.error_message)
    /\ NewLog.body_preview = IF Len(LoggedBody) > PreviewChars
                             THEN SubSeq(LoggedBody, 1, PreviewChars) \o <<Ellipsis>>
                             ELSE LoggedBody

\* A call either writes its one row at once or leaves one thread behind
CallAccounted ==
    Len(threads') + Len(email_logs') > Len(threads) + Len(email_logs) =>
        /\ Len(threads') + Len(email_logs') = Len(threads) + Len(email_logs) + 1
        /\ Len(email_logs') = Len(email_logs) + 1 =>
              /\ SubSeq(email_logs', 1, Len(email_logs)) = email_logs
              /\ last'.result = "unavailable"
              /\ RowMatches

\* A thread that runs writes its one row and is gone
ThreadAccounted ==
    Len(threads') < Len(threads) =>
        /\ Len(threads') = Len(threads) - 1
        /\ Len(email_logs') = Len(email_logs) + 1
        /\ SubSeq(email_logs', 1, Len(email_logs)) = email_logs
        /\ RowMatches

BreachNotified(ticket_id) == HistoryEntry(ticket_id, None, "SLA breach notification sent")

\* The assignee, the creator and the active admins, duplicates removed
BreachRecipients(t, U) ==
    {U[i].email : i \in {j \in DOMAIN U : Some(j) = t.assignee_id}}
    \cup {U[i].email : i \in {j \in DOMAIN U : j = t.user_id}}
    \cup {U[i].email : i \in {j \in DOMAIN U : U[j].role = "admin" /\ U[j].active}}

\* The tickets one run of check_sla alerts on
BreachDue(id, U, T, H, clock) ==
    /\ T[id].status \in {"Open", "In Progress", "Pending"}
    /\ sla_state(T[id], clock) = Some("Breached")
    /\ \A k \in DOMAIN H : H[k] # BreachNotified(id)
    /\ BreachRecipients(T[id], U) # {}

Ascending(S) == SelectSeq([i \in 1..Max(S \cup {0}) |-> i], LAMBDA i : i \in S)

\* One run of the task: FlaskTask builds the application, then check_sla
\* goes through the open tickets
check_sla ==
    LET U == create_app(users)
        due == Ascending({id \in DOMAIN tickets : BreachDue(id, U, tickets, history, now)})
        breached == {id \in DOMAIN tickets :
                        /\ tickets[id].status \in {"Open", "In Progress", "Pending"}
                        /\ sla_state(tickets[id], now) = Some("Breached")}
    IN
    /\ Len(history) < MaxHistory + MaxTickets
    /\ users' = U
    /\ history' = history \o [k \in DOMAIN due |-> BreachNotified(due[k])]
    /\ sent' = [k \in DOMAIN due |-> Mail("sla_breach", BreachRecipients(tickets[due[k]], U), due[k])]
    /\ last' = Response("check_sla", 0, 0, <<>>,
                        [breached_count |-> Cardinality(breached), notified_count |-> Len(due)])
    /\ UNCHANGED <<tickets, comments, attachments, sessions, now>>
    /\ UNCHANGED aux

BreachForms ==
    {[status |-> st, priority |-> "", assignee_id |-> Absent, assignee_name_custom |-> "",
      message |-> "", comment |-> "", attachment |-> ""] : st \in TICKET_STATUSES}

BreachNext ==
    \/ Tick(TicksPerMonth)
    \/ \E u \in DOMAIN users, id \in DOMAIN tickets, f \in BreachForms : TicketView(u, id, f)
    \/ check_sla

BreachSpec == OneTicket /\ [][BreachNext]_vars

Alerts(id, H) == Len(SelectSeq(H, LAMBDA h : h = BreachNotified(id)))

Alerted(id, mails) == \E k \in DOMAIN mails : mails[k].kind = "sla_breach" /\ mails[k].ticket_id = id

\* The ticket is open and past its due date
OpenBreached(id) ==
    /\ tickets[id].status \notin {"Closed", "Resolved"}
    /\ sla_state(tickets[id], now) = Some("Breached")

\* C13: over successive runs of check_sla a ticket that is breached gets
\* exactly one alert: the run that finds it breached and not yet notified
\* sends one mail and records one notification entry, and no run sends a
\* mail for a ticket that has its entry
C13_OneBreachAlert ==
    /\ [](\A id \in DOMAIN tickets : Alerts(id, history) <= 1)
    /\ [][(last'.op = "check_sla" /\ now' = now) =>
            \A id \in DOMAIN tickets :
                /\ OpenBreached(id) => Alerts(id, history') = 1
                /\ Alerted(id, sent') <=> Alerts(id, history') = Alerts(id, history) + 1
                /\ Alerts(id, history) = 1 => ~Alerted(id, sent')]_vars

(***************************************************************************)
(* Application start (create_app) between requests that change the users   *)
(***************************************************************************)
Start ==
    /\ NextId(users) <= MaxUsers
    /\ users' = create_app(users)
    /\ last' = Response("create_app", 0, 0, <<>>, "ok")
    /\ sent' = <<>>
    /\ UNCHANGED <<tickets, comments, attachments, history, sessions, now>>
    /\ UNCHANGED aux

\* An empty database, before the first start
EmptyDatabase ==
    /\ users = <<>>
    /\ tickets = <<>>
    /\ comments = <<>>
    /\ attachments = <<>>
    /\ history = <<>>
    /\ sessions = {}
    /\ now = 0
    /\ sent = <<>>
    /\ last = Response("init_db", 0, 0, <<>>, "ok")
    /\ AuxInit

\* The edit form as rendered for user x, with another role or email chosen
RoleForms(x) ==
    {[name |-> users[x].name, email |-> e, role |-> r, active |-> TRUE, password |-> <<>>] :
        e \in {users[x].email, "root@x.com"}, r \in {"user", "admin"}}

StartNext ==
    \/ Start
    \/ \E f \in RegisterForms : Register(f)
    \/ \E e \in {ADMIN_EMAIL, "root@x.com"} : Login(e, AdminPassword, "user")
    \/ \E u \in DOMAIN users, x \in DOMAIN users : \E f \in RoleForms(x) : AdminUserEdit(u, x, f)
    \/ \E u \in DOMAIN users, x \in DOMAIN users : AdminUserDelete(u, x)

StartSpec == EmptyDatabase /\ [][StartNext]_vars

Admins(U) == {i \in DOMAIN U : U[i].role = "admin"}

\* C14: after every application start some user has role admin; a start
\* that finds no admin-role user adds exactly one user, admin@portal.com
\* with role admin, and a start that finds one adds and changes no user
C14_AdminAfterStart ==
    [][last'.op = "create_app" =>
        /\ Admins(users') # {}
        /\ Admins(users) = {} =>
              /\ Cardinality(DOMAIN users') = Cardinality(DOMAIN users) + 1
              /\ \A i \in DOMAIN users : i \in DOMAIN users' /\ users'[i] = users[i]
              /\ \A i \in DOMAIN users' \ DOMAIN users :
                    users'[i].email = ADMIN_EMAIL /\ users'[i].role = "admin"
        /\ Admins(users) # {} => users' = users]_vars

(***************************************************************************)
(* Registration under every password configuration                         *)
(***************************************************************************)
Configs ==
    [MIN_PASSWORD_LENGTH : {6, 8}, REQUIRE_PASSWORD_UPPERCASE : BOOLEAN,
     REQUIRE_PASSWORD_NUMBERS : BOOLEAN, REQUIRE_PASSWORD_SPECIAL : BOOLEAN]

\* An empty portal started under any of the configurations
PolicyInit ==
    /\ users = create_app(<<>>)
    /\ tickets = <<>>
    /\ comments = <<>>
    /\ attachments = <<>>
    /\ history = <<>>
    /\ sessions = {}
    /\ now = 0
    /\ sent = <<>>
    /\ last = Response("boot", 0, 0, <<>>, "ok")
    /\ config \in Configs
    /\ email_logs = <<>>
    /\ notification_reads = {}
    /\ pending = {}
    /\ threads = <<>>
    /\ jobs = {}

Passwords ==
    {Passw0rd,
     <<"P", "a", "s", "s", "w", "0", "r", "d", "!">>,
     <<"P", "a", "s", "s", "0", "1">>,
     <<"P", "a", "s", "s", "w", "0", "r">>,
     <<"p", "a", "s", "s", "w", "o", "r", "d">>,
     <<"P", "a", "s", "s", "w", "o", "r", "d">>,
     <<"p", "a", "s", "s", "w", "0", "r", "d">>,
     <<"p", "a", "s", "s", "w", "o", "r", "d", "!">>}

PolicyForms ==
    {[name |-> NameOf(e), email |-> e, password |-> pw, password_confirm |-> pc] :
        e \in {"a@x.com"}, pw \in Passwords, pc \in Passwords}

PolicyNext == \E f \in PolicyForms : Register(f)

PolicySpec == PolicyInit /\ [][PolicyNext]_vars

HasUpper(pw) == \E i \in DOMAIN pw : pw[i] \in UpperChars
HasDigit(pw) == \E i \in DOMAIN pw : pw[i] \in {"0", "1", "2", "3", "4", "5", "6", "7", "8", "9"}

DateOf(ts) == ts \div TicksPerDay

\* An aging that counts elapsed periods of 24 hours
AgingElapsed(t, clock) ==
    IF t.status \in {"Closed", "Resolved"}
    THEN IF ~IsNone(t.closed_at) THEN (Val(t.closed_at) - t.created_at) \div TicksPerDay ELSE 0
    ELSE (clock - t.created_at) \div TicksPerDay

update_ticket_aging(t, clock) ==
    IF t.status \in {"Closed", "Resolved"}
    THEN IF ~IsNone(t.closed_at) THEN DateOf(Val(t.closed_at)) - DateOf(t.created_at) ELSE 0
    ELSE DateOf(clock) - DateOf(t.created_at)

\* A query that loads ticket id; the answer carries the aging set on load
LoadTicket(id) ==
    /\ id \in DOMAIN tickets
    /\ last' = Response("load", 0, id, <<>>, update_ticket_aging(tickets[id], now))
    /\ sent' = <<>>
    /\ UNCHANGED <<users, tickets, comments, attachments, history, sessions, now>>
    /\ UNCHANGED aux

MaxDays == 3

AgingNext ==
    \/ now < MaxDays * TicksPerDay /\ Tick(TicksPerDay \div 2)
    \/ tickets = <<>> /\ CreateTicket(2, [priority |-> "Medium", attachment |-> ""])
    \/ \E id \in DOMAIN tickets, st \in TICKET_STATUSES :
          TicketView(2, id, [status |-> st, priority |-> "", assignee_id |-> Absent,
                             assignee_name_custom |-> "", message |-> "", comment |-> "",
                             attachment |-> ""])
    \/ \E id \in DOMAIN tickets : LoadTicket(id)

AgingSpec == InService /\ [][AgingNext]_vars

\* The number of midnights after instant a and up to instant b
Midnights(a, b) == Cardinality({k \in 1..(MaxDays + 1) : a < k * TicksPerDay /\ k * TicksPerDay <= b})

IsClosed(t) == t.status \in {"Closed", "Resolved"}

\* C16: the aging a load computes is the number of days from the creation
\* date to the current date for a ticket that is not Closed or Resolved, and
\* from the creation date to the closure date for one that is (0 without a
\* closed timestamp); while a ticket stays closed its aging does not move
\* with the clock
C16_Aging ==
    /\ [][(last'.op = "load" /\ now' = now) =>
            LET t == tickets[last'.target] IN
            last'.result = IF ~IsClosed(t) THEN Midnights(t.created_at, now)
                           ELSE IF IsNone(t.closed_at) THEN 0
                           ELSE Midnights(t.created_at, Val(t.closed_at))]_vars
    /\ [][now' # now =>
            \A id \in DOMAIN tickets :
                IsClosed(tickets[id]) =>
                    update_ticket_aging(tickets'[id], now') = update_ticket_aging(tickets[id], now)]_vars

\* A ticket filed at noon is loaded the next morning, less than 24 hours
\* old, with aging 1
C16_Witness ==
    /\ last.op = "load"
    /\ last.result = 1
    /\ last.target \in DOMAIN tickets
    /\ ~IsClosed(tickets[last.target])
    /\ now - tickets[last.target].created_at < TicksPerDay

(***************************************************************************)
(* /reports?export=csv: the monthly report as a CSV file                   *)
(***************************************************************************)
\* s.split("-")
RECURSIVE Split(_)
Split(s) ==
    IF \A i \in DOMAIN s : s[i] # "-" THEN <<s>>
    ELSE LET i == CHOOSE k \in DOMAIN s : s[k] = "-" /\ \A j \in 1..(k - 1) : s[j] # "-"
         IN <<SubSeq(s, 1, i - 1)>> \o Split(SubSeq(s, i + 1, Len(s)))

\* datetime(y, m, 1) as a timestamp of the model
MonthStart(y, m) == ((y * 12 + (m - 1)) - (EpochYear * 12 + (EpochMonth - 1))) * TicksPerMonth

\* datetime(y, m, 1) raises ValueError outside these ranges
IsDate(y, m) == y \in 1..9999 /\ m \in 1..12

\* The try block of reports(): start and end of the month, or None when
\* the unpacking, an int() or a datetime() raises
MonthRange(month) ==
    LET f == Split(month) IN
    IF Len(f) # 2 \/ ~IsNumeral(f[1]) \/ ~IsNumeral(f[2]) THEN None
    ELSE LET y == ParseDec(f[1])
             m == ParseDec(f[2])
         IN IF ~IsDate(y, m) THEN None
            ELSE IF m = 12
            THEN IF IsDate(y + 1, 1) THEN Some([start |-> MonthStart(y, m), end |-> MonthStart(y + 1, 1)])
                 ELSE None
            ELSE Some([start |-> MonthStart(y, m), end |-> MonthStart(y, m + 1)])

\* The tickets the query selects
ReportTickets(month, T) ==
    IF Len(month) = 0 \/ IsNone(MonthRange(month)) THEN DOMAIN T
    ELSE {id \in DOMAIN T : /\ T[id].created_at >= Val(MonthRange(month)).start
                            /\ T[id].created_at < Val(MonthRange(month)).end}

\* order_by(created_at.desc()): every order of the selected tickets that
\* puts later creations first
NewestFirst(S, T) ==
    {o \in [1..Cardinality(S) -> S] :
        /\ \A a \in DOMAIN o : \A b \in DOMAIN o : a < b =>
              o[a] # o[b] /\ T[o[a]].created_at >= T[o[b]].created_at}

\* normalize_assignee_display_key
AssigneeKey(t, U) ==
    IF ~IsNone(t.assignee_name) /\ Val(t.assignee_name) # "" THEN Val(t.assignee_name)
    ELSE IF ~IsNone(AssigneeOf(t, U)) THEN U[Val(AssigneeOf(t, U))].name
    ELSE "Unassigned"

\* One row of the export; ticket_type and category are columns of the
\* ticket the model does not carry
ReportRow(t, U, clock) ==
    [ticket_no |-> t.ticket_no, created_at |-> t.created_at, priority |-> t.priority,
     status |-> t.status, assignee |-> AssigneeKey(t, U),
     user |-> IF t.user_id \in DOMAIN U THEN U[t.user_id].name ELSE "",
     due_date |-> t.due_date, sla_state |-> sla_state(t, clock)]

CsvColumns ==
    <<"ticket_no", "created_at", "ticket_type", "category", "priority", "status",
      "assignee", "user", "due_date", "sla_state">>

\* pd.DataFrame(rows).to_csv: the columns are the keys of the row
\* dictionaries, so a frame built from no rows has no columns
DataFrame(rows) == [columns |-> IF Len(rows) = 0 THEN <<>> ELSE CsvColumns, rows |-> rows]

ReportsCsv(u, month) ==
    /\ Authenticated(u)
    /\ IF ~IsAdmin(u)
       THEN last' = Response("reports_csv", u, 0, month, "forbidden")
       ELSE \E o \in NewestFirst(ReportTickets(month, tickets), tickets) :
               last' = Response("reports_csv", u, 0, month,
                                DataFrame([k \in DOMAIN o |-> ReportRow(tickets[o[k]], users, now)]))
    /\ sent' = <<>>
    /\ UNCHANGED <<users, tickets, comments, attachments, history, sessions, now>>
    /\ UNCHANGED aux

MonthText(y, m) == ZeroPad(DecStr(y), 4) \o <<"-">> \o Format02d(m)

MonthParams ==
    {MonthText(2025, 11), MonthText(2025, 12), MonthText(2026, 1), MonthText(2025, 13),
     MonthText(2025, 11) \o <<"-", "0", "1">>, <<"n", "o", "v">>}

ExportNext ==
    \/ Tick(TicksPerMonth)
    \/ CreateTicket(2, [priority |-> "Medium", attachment |-> ""])
    \/ \E u \in DOMAIN users, month \in MonthParams : ReportsCsv(u, month)

ExportSpec == InService /\ [][ExportNext]_vars

\* The tickets created in the calendar month a well-formed parameter names
CreatedIn(y, m) == {id \in DOMAIN tickets : YearOf(tickets[id].created_at) = y
                                          /\ MonthOf(tickets[id].created_at) = m}

Expected(month) ==
    IF month = MonthText(2025, 11) THEN CreatedIn(2025, 11)
    ELSE IF month = MonthText(2025, 12) THEN CreatedIn(2025, 12)
    ELSE IF month = MonthText(2026, 1) THEN CreatedIn(2026, 1)
    ELSE DOMAIN tickets

\* C17: the CSV export for a well-formed month holds exactly the tickets
\* created in that calendar month, newest first, under the ten columns
\* ticket_no .. sla_state in their order; for a malformed month it holds all
\* tickets
C17_CsvExport ==
    [][(last'.op = "reports_csv" /\ IsAdmin(last'.user)) =>
        /\ last'.result.columns = CsvColumns
        /\ \E o \in NewestFirst(Expected(last'.form), tickets) :
              last'.result.rows = [k \in DOMAIN o |-> ReportRow(tickets[o[k]], users, now)]]_vars

(***************************************************************************)
(* utils.py: calculate_sla_compliance_rate.  A float is kept as the exact  *)
(* fraction num / den                                                      *)
(***************************************************************************)
Fraction(a, b) == [num |-> a, den |-> b]
Times(q, k) == [num |-> q.num * k, den |-> q.den]
SameNumber(p, q) == p.num * q.den = q.num * p.den

\* A rate taken over all tickets handed in, closed or not
ComplianceRateOfAll(ts, clock) ==
    IF Len(ts) = 0 THEN Fraction(100, 1)
    ELSE LET met_sla == Len(SelectSeq(ts, LAMBDA t : t.status \in {"Closed", "Resolved"}
                                                      /\ sla_state(t, clock) = Some("Met")))
         IN Times(Fraction(met_sla, Len(ts)), 100)

calculate_sla_compliance_rate(ts, clock) ==
    IF Len(ts) = 0 THEN Fraction(100, 1)
    ELSE LET closed_tickets == SelectSeq(ts, LAMBDA t : t.status \in {"Closed", "Resolved"}) IN
         IF Len(closed_tickets) = 0 THEN Fraction(100, 1)
         ELSE LET met_sla == Len(SelectSeq(closed_tickets, LAMBDA t : sla_state(t, clock) = Some("Met")))
              IN Times(Fraction(met_sla, Len(closed_tickets)), 100)

\* A call with the stored tickets ids as the collection
ComplianceRate(ids) ==
    /\ ids \subseteq DOMAIN tickets
    /\ last' = Response("calculate_sla_compliance_rate", 0, 0, ids,
                        calculate_sla_compliance_rate(
                            [k \in DOMAIN Ascending(ids) |-> tickets[Ascending(ids)[k]]], now))
    /\ sent' = <<>>
    /\ UNCHANGED <<users, tickets, comments, attachments, history, sessions, now>>
    /\ UNCHANGED aux

ComplianceNext ==
    \/ Tick(TicksPerMonth)
    \/ \E u \in {2, 3}, id \in DOMAIN tickets, st \in {"Open", "Closed", "Resolved"} :
          TicketView(u, id, [status |-> st, priority |-> "", assignee_id |-> Absent,
                             assignee_name_custom |-> "", message |-> "", comment |-> "",
                             attachment |-> ""])
    \/ \E ids \in SUBSET DOMAIN tickets : ComplianceRate(ids)

ComplianceSpec == TwoTickets /\ [][ComplianceNext]_vars

ClosedIn(ids) == {id \in ids : tickets[id].status \in {"Closed", "Resolved"}}
MetIn(ids) == {id \in ClosedIn(ids) : sla_state(tickets[id], now) = Some("Met")}

\* C18: the compliance rate of a collection is 100 * (its Closed or
\* Resolved tickets with SLA state Met) / (its Closed or Resolved tickets),
\* and exactly 100 when the collection is empty or holds no Closed or
\* Resolved ticket
C18_ComplianceRate ==
    [][last'.op = "calculate_sla_compliance_rate" =>
        IF ClosedIn(last'.form) = {}
        THEN last'.result = Fraction(100, 1)
        ELSE SameNumber(last'.result,
                        Fraction(100 * Cardinality(MetIn(last'.form)), Cardinality(ClosedIn(last'.form))))]_vars

\* A collection of one ticket closed in time, one closed late: rate 50
C18_Witness ==
    /\ last.op = "calculate_sla_compliance_rate"
    /\ last.form = {1, 2}
    /\ SameNumber(last.result, Fraction(50, 1))
    /\ \E id \in {1, 2} : sla_state(tickets[id], now) = Some("Breached")

(***************************************************************************)
(* The ticket page used by the creator, an assignee-role user and an admin *)
(***************************************************************************)
\* As OneTicket, with Bob registered by the admin in role assignee
WithAssignee ==
    /\ users = Insert(Insert(create_app(<<>>),
                             NewUser("Ann", "a@x.com", "user", TRUE, Passw0rd)),
                      NewUser("Bob", "b@x.com", "assignee", TRUE, Passw0rd))
    /\ tickets = Insert(<<>>, NewTicket(RouteTicketNo(<<>>, 0), 2, "Medium", "Not Open Yet",
                                        None, SLA_HOURS, 0))
    /\ comments = <<>>
    /\ attachments = <<>>
    /\ history = <<HistoryEntry(1, Some(2), "Ticket created")>>
    /\ sessions = {1, 2, 3}
    /\ now = 0
    /\ sent = email_ticket_created([email |-> "a@x.com"], 1)
    /\ last = Response("create_ticket", 2, 1, [priority |-> "Medium", attachment |-> ""], "ok")
    /\ AuxInit

FrameForms ==
    {[status |-> st, priority |-> p, assignee_id |-> a, assignee_name_custom |-> c,
      message |-> x[1], comment |-> "", attachment |-> x[2]] :
        st \in {"", "Closed"}, p \in {"", "High"}, a \in {"", "3"},
        c \in {"", "Jane from Vendor"}, x \in {<<"", "">>, <<"hello", "a.pdf">>}}

\* The admin assigns the ticket to Bob
AssignToBob ==
    [status |-> "", priority |-> "", assignee_id |-> "3", assignee_name_custom |-> "",
     message |-> "", comment |-> "", attachment |-> ""]

FrameNext ==
    \/ \E u \in DOMAIN users \ {1}, id \in DOMAIN tickets, f \in FrameForms : TicketView(u, id, f)
    \/ \E id \in DOMAIN tickets : TicketView(1, id, AssignToBob)

FrameSpec == WithAssignee /\ [][FrameNext]_vars

\* The answered request is an accepted ticket page submission of a caller
\* who is not an admin
NonAdminSubmission ==
    /\ last'.op = "ticket_view"
    /\ last'.result = "ok"
    /\ now' = now
    /\ users[last'.user].role # "admin"

\* C19: an accepted submission to the ticket page by the creator or by an
\* assignee-role user leaves priority, assignee reference, assignee name and
\* assignment tag of the ticket as they were, whatever the form carries; it
\* changes at most the status and closed timestamp of that ticket, and adds
\* at most comments, attachments and history entries of that ticket
C19_NonAdminFrame ==
    [][NonAdminSubmission =>
        LET id == last'.target IN
        /\ tickets' = [tickets EXCEPT ![id].status = tickets'[id].status,
                                      ![id].closed_at = tickets'[id].closed_at]
        /\ users' = users
        /\ IsPrefix(comments, comments') /\ IsPrefix(attachments, attachments')
        /\ IsPrefix(history, history')
        /\ \A k \in (Len(comments) + 1)..Len(comments') : comments'[k].ticket_id = id
        /\ \A k \in (Len(attachments) + 1)..Len(attachments') : attachments'[k].ticket_id = id
        /\ \A k \in (Len(history) + 1)..Len(history') : history'[k].ticket_id = id]_vars

\* The assignee-role user has closed an assigned ticket with a form that
\* asked for another priority and another assignee
C19_Witness ==
    /\ last.op = "ticket_view"
    /\ last.result = "ok"
    /\ last.user = 3
    /\ last.form.priority = "High" /\ last.form.assignee_id = "" /\ last.form.status = "Closed"
    /\ tickets[1].status = "Closed"
    /\ tickets[1].priority = "Medium"
    /\ tickets[1].assignee_id = Some(3)

(***************************************************************************)
(* Notification API: count, list, mark one read, mark all read             *)
(***************************************************************************)
\* Ticket.updated_at: set with created_at when the row is inserted and
\* again by every UPDATE of the row; the specification below only inserts
\* tickets, so the column still holds its value from the insert
UpdatedAt(t) == t.created_at

ListLimit == 15

\* yesterday = now - timedelta(hours=24)
Yesterday(clock) == clock - TicksPerDay

\* The tickets both notification queries filter for
NotificationTickets(u, U, T, clock) ==
    IF U[u].role = "admin"
    THEN {id \in DOMAIN T : T[id].created_at >= Yesterday(clock)}
    ELSE {id \in DOMAIN T : T[id].user_id = u /\ UpdatedAt(T[id]) >= Yesterday(clock)}

api_notifications_count(u, U, T, clock) == Cardinality(NotificationTickets(u, U, T, clock))

\* The lists the query may return: newest first, at most ListLimit items
api_notifications_list(u, U, T, clock) ==
    {[k \in 1..(IF Len(o) > ListLimit THEN ListLimit ELSE Len(o)) |->
         [id |-> o[k], type |-> IF U[u].role = "admin" THEN "new_ticket" ELSE "ticket_update",
          priority |-> T[o[k]].priority, status |-> T[o[k]].status]] :
        o \in NewestFirst(NotificationTickets(u, U, T, clock), T)}

ApiNotificationsCount(u) ==
    /\ Authenticated(u)
    /\ last' = Response("api_notifications_count", u, 0, <<>>,
                        api_notifications_count(u, users, tickets, now))
    /\ sent' = <<>>
    /\ UNCHANGED <<users, tickets, comments, attachments, history, sessions, now>>
    /\ UNCHANGED aux

ApiNotificationsList(u) ==
    /\ Authenticated(u)
    /\ \E l \in api_notifications_list(u, users, tickets, now) :
          last' = Response("api_notifications_list", u, 0, <<>>, l)
    /\ sent' = <<>>
    /\ UNCHANGED <<users, tickets, comments, attachments, history, sessions, now>>
    /\ UNCHANGED aux

\* models.py: the helper that creates or refreshes the read record of a
\* (user, ticket) pair
mark_notification_as_read(R, user_id, ticket_id, clock) ==
    {r \in R : ~(r.user_id = user_id /\ r.ticket_id = ticket_id)}
    \cup {[user_id |-> user_id, ticket_id |-> ticket_id, marked_at |-> clock]}

\* An endpoint that records the read state with the helper
ApiNotificationReadWired(u, notification_id) ==
    /\ Authenticated(u)
    /\ notification_reads' = mark_notification_as_read(notification_reads, u, notification_id, now)
    /\ last' = Response("api_notification_read", u, notification_id, <<>>, [success |-> TRUE])
    /\ sent' = <<>>
    /\ UNCHANGED <<users, tickets, comments, attachments, history, sessions, now>>
    /\ UNCHANGED <<config, email_logs, pending, threads, jobs>>

ApiNotificationRead(u, notification_id) ==
    /\ Authenticated(u)
    /\ last' = Response("api_notification_read", u, notification_id, <<>>, [success |-> TRUE])
    /\ sent' = <<>>
    /\ UNCHANGED <<users, tickets, comments, attachments, history, sessions, now>>
    /\ UNCHANGED aux

ApiNotificationsMarkAllRead(u) ==
    /\ Authenticated(u)
    /\ last' = Response("api_notifications_mark_all_read", u, 0, <<>>, [success |-> TRUE, count |-> 0])
    /\ sent' = <<>>
    /\ UNCHANGED <<users, tickets, comments, attachments, history, sessions, now>>
    /\ UNCHANGED aux

NotifyNext ==
    \/ 2 * now < MaxDays * TicksPerDay /\ Tick(TicksPerDay \div 2)
    \/ CreateTicket(2, [priority |-> "Medium", attachment |-> ""])
    \/ \E u \in {1, 2} : ApiNotificationsCount(u)
    \/ \E u \in {1, 2} : ApiNotificationsList(u)
    \/ \E u \in {1, 2}, n \in 1..MaxTickets : ApiNotificationRead(u, n)
    \/ \E u \in {1, 2} : ApiNotificationsMarkAllRead(u)

NotifySpec == InService /\ [][NotifyNext]_vars

MarkedRead == last'.op \in {"api_notification_read", "api_notifications_mark_all_read"}

TicketNoNeverTaken(T, ticket_no) == FALSE

\* Ticket.ticket_no is unique: the INSERT of a number a row holds raises
TicketNoTaken(T, ticket_no) == \E i \in DOMAIN T : T[i].ticket_no = ticket_no

\* create_ticket() up to and including the computation of ticket_no
CreateTicketBegin(u, form) ==
    /\ Authenticated(u)
    /\ TicketFormValid(form)
    /\ Begin(Request("create_ticket", u, 0,
                     [priority |-> form.priority, attachment |-> form.attachment,
                      ticket_no |-> RouteTicketNo(tickets, now)]))

\* The rest of create_ticket(): add and flush the ticket, then the
\* attachment, the history entry, the commit and the email; the except
\* branch rolls the session back
CreateTicketCommit(r) ==
    LET t == generate_ticket_no(
                 NewTicket(r.form.ticket_no, r.u, r.form.priority, "Not Open Yet",
                           None, SLA_HOURS, now), tickets, now)
        id == NextId(tickets)
        saved == save_attachment(r.form.attachment)
    IN
    /\ r \in pending
    /\ r.op = "create_ticket"
    /\ id <= MaxTickets
    /\ Len(history) < MaxHistory
    /\ Len(attachments) < MaxHistory
    /\ pending' = pending \ {r}
    /\ IF TicketNoTaken(tickets, t.ticket_no)
       THEN /\ UNCHANGED <<tickets, attachments, history>>
            /\ sent' = <<>>
            /\ last' = Response("create_ticket", r.u, 0, r.form, "failed")
       ELSE /\ tickets' = Insert(tickets, t)
            /\ attachments' = IF IsNone(saved) THEN attachments
                              ELSE Append(attachments, [ticket_id |-> id, filename |-> Val(saved)])
            /\ history' = Append(history, HistoryEntry(id, Some(r.u), "Ticket created"))
            /\ sent' = email_ticket_created(users[r.u], id)
            /\ last' = Response("create_ticket", r.u, id, r.form, "ok")
    /\ UNCHANGED <<users, comments, sessions, now>>
    /\ UNCHANGED <<config, email_logs, notification_reads, threads, jobs>>

\* One form per user: Ann posts no file, Bob posts one
RaceForm(u) == [priority |-> "High", attachment |-> IF u = 3 THEN "a.pdf" ELSE ""]

TicketRaceNext ==
    \/ now < TicksPerMonth /\ Tick(TicksPerMonth)
    \/ \E u \in {2, 3} : CreateTicketBegin(u, RaceForm(u))
    \/ \E r \in pending : CreateTicketCommit(r)

TicketRaceSpec == InService /\ [][TicketRaceNext]_vars

DistinctTicketNos(T) == \A i, j \in DOMAIN T : i # j => T[i].ticket_no # T[j].ticket_no

\* The step answers a ticket creation begun earlier
CreationAnswered == last'.op = "create_ticket" /\ Cardinality(pending') < Cardinality(pending)

\* C21: however two ticket creations of one month interleave their read of
\* the latest number and their insert, stored tickets have pairwise distinct
\* numbers, and a creation whose number is taken when it inserts stores no
\* ticket, attachment or history entry and sends no ticket-created email
C21_ConcurrentCreation ==
    /\ []DistinctTicketNos(tickets)
    /\ [][(CreationAnswered /\ TicketNoTaken(tickets, last'.form.ticket_no)) =>
            /\ last'.result = "failed"
            /\ tickets' = tickets /\ attachments' = attachments /\ history' = history
            /\ comments' = comments
            /\ sent' = <<>>]_vars

\* Two creations of one month read the same latest number; the first
\* inserted and the second, carrying an attachment, was rejected
C21_Witness ==
    /\ last.op = "create_ticket"
    /\ last.result = "failed"
    /\ last.form.attachment # ""
    /\ TicketNoTaken(tickets, last.form.ticket_no)
    /\ \E i \in DOMAIN tickets : tickets[i].ticket_no = last.form.ticket_no
                                   /\ tickets[i].user_id # last.user
                                   /\ MonthIndex(tickets[i].created_at) = MonthIndex(now)
    /\ attachments = <<>>
    /\ Len(history) = Len(tickets)
    /\ sent = <<>>

(***************************************************************************)
(* The unit of work of a request: every state-changing handler collects    *)
(* its changes in the session, commits once at the end of its try block    *)
(* and rolls the session back in its except branch                         *)
(***************************************************************************)
Rows(U, T, C, A, H, mails) ==
    [users |-> U, tickets |-> T, comments |-> C, attachments |-> A, history |-> H, mails |-> mails]

\* The rows in the session of request r when it reaches its commit, and
\* the mails it has sent by then
Session(r) ==
    IF r.op = "create_ticket"
    THEN LET t == generate_ticket_no(
                      NewTicket(RouteTicketNo(tickets, now), r.u, r.form.priority, "Not Open Yet",
                                None, SLA_HOURS, now), tickets, now)
             saved == save_attachment(r.form.attachment)
         IN Rows(users, Insert(tickets, t), comments,
                 IF IsNone(saved) THEN attachments
                 ELSE Append(attachments, [ticket_id |-> NextId(tickets), filename |-> Val(saved)]),
                 Append(history, HistoryEntry(NextId(tickets), Some(r.u), "Ticket created")), <<>>)
    ELSE IF r.op = "ticket_view"
    THEN LET id == r.target
             w1 == StatusStep(Work(tickets[id]), id, r.u, r.form.status, now)
             w3 == IF users[r.u].role = "admin"
                   THEN ViewAssigneeStep(PriorityStep(w1, id, r.u, r.form.priority), id, r.u,
                                         r.form.assignee_id, Strip(r.form.assignee_name_custom))
                   ELSE w1
             msg == Strip(IF r.form.message # "" THEN r.form.message ELSE r.form.comment)
             saved == save_attachment(r.form.attachment)
         IN Rows(users, [tickets EXCEPT ![id] = w3.ticket],
                 IF msg # ""
                 THEN Append(comments, [ticket_id |-> id, user_id |-> r.u, prefix |-> "", message |-> msg])
                 ELSE comments,
                 IF ~IsNone(saved) THEN Append(attachments, [ticket_id |-> id, filename |-> Val(saved)])
                 ELSE attachments,
                 history \o w3.hist
                    \o (IF msg # "" THEN <<HistoryEntry(id, Some(r.u), "Comment added")>> ELSE <<>>)
                    \o (IF ~IsNone(saved) THEN <<HistoryEntry(id, Some(r.u), "Attachment uploaded")>> ELSE <<>>),
                 w3.mails)
    ELSE IF r.op = "admin_ticket_update"
    THEN LET id == r.target
             w1 == StatusStep(Work(tickets[id]), id, r.u, r.form.status, now)
             w2 == PriorityStep(w1, id, r.u, r.form.priority)
             w3 == AdminAssigneeStep(w2, id, r.u,
                       Strip(IF r.form.assignee_id = Absent THEN "" ELSE r.form.assignee_id),
                       Strip(r.form.assignee_name_custom))
             comment == Strip(r.form.comment)
         IN Rows(users, [tickets EXCEPT ![id] = w3.ticket],
                 IF comment # ""
                 THEN Append(comments, [ticket_id |-> id, user_id |-> r.u,
                                        prefix |-> "[ADMIN] ", message |-> comment])
                 ELSE comments,
                 attachments,
                 history \o w3.hist
                    \o (IF comment # "" THEN <<HistoryEntry(id, Some(r.u), "Admin comment added")>> ELSE <<>>),
                 w3.mails)
    ELSE IF r.op = "admin_user_delete"
    THEN Rows(Remove(users, {r.target}),
              NullAssignee(BulkDeleteTickets(tickets, r.target), r.target),
              BulkDeleteComments(comments, r.target), attachments,
              BulkDeleteHistory(history, r.target), <<>>)
    ELSE Rows(Requested(r), tickets, comments, attachments, history, <<>>)

\* A session that was flushed row by row: what it held stays
RollbackKeeping(before, dirty) == dirty

\* db.session.rollback()
Rollback(before, dirty) == before

\* The handler reaches its try block
EntersTry(r) ==
    /\ Authenticated(r.u)
    /\ r.op = "ticket_view" =>
          /\ r.target \in DOMAIN tickets
          /\ users[r.u].role \in {"admin", "assignee"} \/ tickets[r.target].user_id = r.u
    /\ r.op = "admin_ticket_update" => IsAdmin(r.u) /\ r.target \in DOMAIN tickets
    /\ r.op = "admin_users" => IsAdmin(r.u) /\ IsNone(UserByEmail(r.form.email, users))
    /\ r.op = "admin_user_edit" => IsAdmin(r.u) /\ r.target \in DOMAIN users
    /\ r.op = "admin_user_delete" => IsAdmin(r.u) /\ r.target \in DOMAIN users /\ r.target # r.u

\* A request whose try block raises, at the commit at the latest (early is
\* TRUE when it raises before the handler has sent any mail): the except
\* branch rolls the session back and the mail after the commit is skipped
Raises(r, early) ==
    /\ EntersTry(r)
    /\ LET s == Session(r) IN
       /\ users' = Rollback(users, s.users)
       /\ tickets' = Rollback(tickets, s.tickets)
       /\ comments' = Rollback(comments, s.comments)
       /\ attachments' = Rollback(attachments, s.attachments)
       /\ history' = Rollback(history, s.history)
       /\ sent' = IF early THEN <<>> ELSE s.mails
    /\ last' = Response(r.op, r.u, r.target, r.form, "failed")
    /\ UNCHANGED <<sessions, now>>
    /\ UNCHANGED aux

FullForm ==
    [BlankForm EXCEPT !.status = "Closed", !.priority = "High", !.assignee_id = "3",
                      !.message = "hello", !.comment = "hello", !.attachment = "a.pdf"]

UnitTicketForms == {FullForm, [BlankForm EXCEPT !.status = "Open"]}

UnitUserForms ==
    {[name |-> "Bob", email |-> e, role |-> "assignee", active |-> TRUE, password |-> <<>>] :
        e \in {"a@x.com", "b@x.com"}}

UnitRequests ==
    {Request("create_ticket", u, 0, [priority |-> "Low", attachment |-> "a.pdf"]) : u \in {2}}
    \cup {Request("ticket_view", u, 1, f) : u \in {1, 2}, f \in UnitTicketForms}
    \cup {Request("admin_ticket_update", 1, 1, f) : f \in UnitTicketForms}
    \cup {Request("admin_users", 1, 0, f) : f \in UnitUserForms}
    \cup {Request("admin_user_edit", 1, 3, f) : f \in UnitUserForms}
    \cup {Request("admin_user_delete", 1, 3, <<>>)}

UnitNext ==
    \/ \E r \in UnitRequests :
          \/ r.op = "create_ticket" /\ CreateTicket(r.u, r.form)
          \/ r.op = "ticket_view" /\ TicketView(r.u, r.target, r.form)
          \/ r.op = "admin_ticket_update" /\ AdminTicketUpdate(r.u, r.target, r.form)
          \/ r.op = "admin_users" /\ AdminUsers(r.u, r.form)
          \/ r.op = "admin_user_edit" /\ AdminUserEdit(r.u, r.target, r.form)
          \/ r.op = "admin_user_delete" /\ AdminUserDelete(r.u, r.target)
    \/ \E r \in UnitRequests, early \in BOOLEAN : Raises(r, early)

UnitSpec == OneTicket /\ [][UnitNext]_vars

StateChanging ==
    {"create_ticket", "ticket_view", "admin_ticket_update", "admin_users", "admin_user_edit",
     "admin_user_delete"}

\* The rows the answered request had in its session, computed in the state
\* the request started from
Intended ==
    LET s == Session(Request(last'.op, last'.user, last'.target, last'.form))
    IN <<s.users, s.tickets, s.comments, s.attachments, s.history>>

\* C22: a state-changing request (ticket creation, self-service and
\* administrative ticket update, user creation, edit and deletion) stores
\* either all of its changes or, when it fails, none: after a failed request
\* users, tickets, comments, attachment rows and history are as they were
C22_RequestAtomic ==
    [][(last'.op \in StateChanging /\ now' = now) =>
          IF last'.result = "ok" THEN db' = Intended ELSE db' = db]_vars

\* A ticket update that asked for a status, a priority, an assignee, a
\* comment and an attachment failed after the assignee mail went out, and
\* the ticket and its rows are as filed
C22_Witness ==
    /\ last.op = "ticket_view"
    /\ last.result = "failed"
    /\ last.form = FullForm
    /\ sent # <<>>
    /\ tickets[1].status = "Not Open Yet"
    /\ tickets[1].priority = "Medium"
    /\ IsNone(tickets[1].assignee_id)
    /\ comments = <<>>
    /\ attachments = <<>>
    /\ Len(history) = 1

(***************************************************************************)
(* History entries and mails of a submission to /ticket/<id>               *)
(***************************************************************************)
ViewForms ==
    {[BlankForm EXCEPT !.status = st, !.priority = p, !.assignee_name_custom = c] :
        st \in {"", "In Progress", "Closed"}, p \in {"", "High"}, c \in {"", "Jane from Vendor"}}
    \cup {[BlankForm EXCEPT !.assignee_id = a] : a \in {"3", "queue"}}
    \cup {[BlankForm EXCEPT !.message = "hello"], [BlankForm EXCEPT !.comment = " "],
          [BlankForm EXCEPT !.attachment = "a.pdf"], [BlankForm EXCEPT !.attachment = "a.exe"]}

ViewNext == \E u \in {1, 2}, id \in DOMAIN tickets, f \in ViewForms : TicketView(u, id, f)

ViewSpec == OneTicket /\ [][ViewNext]_vars

\* The step is a served submission to the ticket page
ViewServed == last'.op = "ticket_view" /\ last'.result = "ok" /\ now' = now

Bit(b) == IF b THEN 1 ELSE 0

Assignment(t) == <<t.assignee_id, t.assignee_name, t.assign_status>>

\* The changes the step applied to ticket id: the status asked for, a
\* status set on assignment, the priority, the assignment, comments and
\* attachment rows
ChangesApplied(id) ==
    LET asked == last'.form.status # "" /\ last'.form.status # tickets[id].status
        before == IF asked THEN last'.form.status ELSE tickets[id].status
    IN Bit(asked)
       + Bit(tickets'[id].status # before)
       + Bit(tickets'[id].priority # tickets[id].priority)
       + Bit(Assignment(tickets'[id]) # Assignment(tickets[id]))
       + (Len(comments') - Len(comments))
       + (Len(attachments') - Len(attachments))

UpdateMails(id) ==
    Len(SelectSeq(sent', LAMBDA m : m.kind = "updated" /\ m.ticket_id = id
                                     /\ m.to = users[tickets[id].user_id].email))

\* C23: a served submission to the ticket page appends one history entry
\* per change it applied (status, priority, assignment, comment, attachment)
\* and sends exactly one ticket-updated mail to the creator when it applied
\* a change; a submission that leaves status, priority and assignment as
\* they are and carries no comment and no attachment appends no entry and
\* sends no mail
C23_HistoryPerChange ==
    [][ViewServed =>
          LET id == last'.target IN
          /\ Len(Gained) = ChangesApplied(id)
          /\ UpdateMails(id) = Bit(ChangesApplied(id) > 0)
          /\ ChangesApplied(id) = 0 => (history' = history /\ sent' = <<>>)]_vars

(***************************************************************************)
(* The SLA report on demand (/admin/sla-daily-report) and as a job         *)
(* (tasks.daily_sla_report)                                                *)
(***************************************************************************)
\* admin_sla_daily_report: the tickets it lists as breached and as at risk
OnDemandReport(T, clock) ==
    LET open_tickets == {id \in DOMAIN T : T[id].status # "Closed"}
        secs(id) == sla_seconds_left(T[id], clock)
    IN [breached |-> {id \in open_tickets : ~IsNone(secs(id)) /\ Val(secs(id)) < 0},
        at_risk |-> {id \in open_tickets : ~IsNone(secs(id)) /\ Val(secs(id)) >= 0
                                           /\ Val(secs(id)) <= SixHours}]

\* daily_sla_report: the tickets it counts as breached and as at risk
ScheduledReport(T, clock) ==
    LET open_tickets == {id \in DOMAIN T : T[id].status \in {"Open", "In Progress", "Pending"}}
    IN [breached |-> {id \in open_tickets : sla_state(T[id], clock) = Some("Breached")},
        at_risk |-> {id \in open_tickets : sla_state(T[id], clock) = Some("At Risk")}]

\* One run of the job: FlaskTask builds the application, then the report
\* goes to every active admin that has an email
daily_sla_report ==
    LET U == create_app(users)
        admin_emails == {U[i].email : i \in {j \in DOMAIN U :
                            U[j].role = "admin" /\ U[j].active /\ U[j].email # ""}}
        report == ScheduledReport(tickets, now)
    IN
    /\ users' = U
    /\ IF admin_emails = {}
       THEN /\ sent' = <<>>
            /\ last' = Response("daily_sla_report", 0, 0, <<>>, [status |-> "skipped"])
       ELSE /\ sent' = <<Mail("sla_report", admin_emails, 0)>>
            /\ last' = Response("daily_sla_report", 0, 0, <<>>,
                                [status |-> "sent", admin_count |-> Cardinality(admin_emails),
                                 breached |-> Cardinality(report.breached),
                                 at_risk |-> Cardinality(report.at_risk)])
    /\ UNCHANGED <<tickets, comments, attachments, history, sessions, now>>
    /\ UNCHANGED aux

ReportNext ==
    \/ now < MaxDays * TicksPerDay /\ Tick(TicksPerDay)
    \/ \E u \in {1, 2}, id \in DOMAIN tickets, f \in BreachForms : TicketView(u, id, f)
    \/ \E u \in {1, 2}, x \in {1}, b \in BOOLEAN : AdminUserEdit(u, x, ActiveForm(x, b))
    \/ \E u \in {1, 2} : AdminSlaDailyReport(u)
    \/ daily_sla_report

ReportSpec == OneTicket /\ [][ReportNext]_vars

\* C24: at every instant the report on demand and the scheduled report
\* classify the same tickets as breached and the same tickets as at risk
C24_SameReport == OnDemandReport(tickets, now) = ScheduledReport(tickets, now)

(***************************************************************************)
(* tasks.send_sla_reminders: the reminder sweep                            *)
(***************************************************************************)
FourHours == 4 * 3600

\* The history entry of a reminder: event_type "sla_reminder_sent", no
\* actor, created_at set when the row is inserted
ReminderEntry(ticket_id, clock) ==
    [ticket_id |-> ticket_id, user_id |-> None, event |-> "SLA reminder sent", created_at |-> clock]

IsReminder(h, id) == h.event = "SLA reminder sent" /\ h.ticket_id = id

\* A sweep that does not look for an earlier reminder
ReminderDueAnyTime(id, U, T, H, clock) ==
    /\ T[id].status \in {"Open", "In Progress", "Pending"}
    /\ ~IsNone(T[id].due_date)
    /\ ~IsNone(sla_seconds_left(T[id], clock))
    /\ 0 < Val(sla_seconds_left(T[id], clock))
    /\ Val(sla_seconds_left(T[id], clock)) <= SixHours
    /\ ~IsNone(AssigneeOf(T[id], U))
    /\ U[Val(AssigneeOf(T[id], U))].email # ""

\* The tickets one sweep reminds about
ReminderDue(id, U, T, H, clock) ==
    /\ T[id].status \in {"Open", "In Progress", "Pending"}
    /\ ~IsNone(T[id].due_date)
    /\ ~IsNone(sla_seconds_left(T[id], clock))
    /\ 0 < Val(sla_seconds_left(T[id], clock))
    /\ Val(sla_seconds_left(T[id], clock)) <= SixHours
    /\ ~\E k \in DOMAIN H : /\ IsReminder(H[k], id)
                            /\ H[k].created_at >= clock - FourHours * Resolution
    /\ ~IsNone(AssigneeOf(T[id], U))
    /\ U[Val(AssigneeOf(T[id], U))].email # ""

\* One run of the task: FlaskTask builds the application, then the sweep
\* goes through the open tickets
send_sla_reminders ==
    LET U == create_app(users)
        due == Ascending({id \in DOMAIN tickets : ReminderDue(id, U, tickets, history, now)})
    IN
    /\ Len(history) < MaxHistory + MaxTickets
    /\ users' = U
    /\ history' = history \o [k \in DOMAIN due |-> ReminderEntry(due[k], now)]
    /\ sent' = [k \in DOMAIN due |->
                   Mail("sla_reminder", U[Val(AssigneeOf(tickets[due[k]], U))].email, due[k])]
    /\ last' = Response("send_sla_reminders", 0, 0, <<>>, [reminders_sent |-> Len(due)])
    /\ UNCHANGED <<tickets, comments, attachments, sessions, now>>
    /\ UNCHANGED aux

OneHour == 3600 * Resolution

\* Ann's ticket, assigned to Bob by the admin when it was filed, seven
\* hours before it is due
Reminding ==
    /\ users = Insert(Insert(create_app(<<>>),
                             NewUser("Ann", "a@x.com", "user", TRUE, Passw0rd)),
                      NewUser("Bob", "b@x.com", "assignee", TRUE, Passw0rd))
    /\ tickets = LET filed == NewTicket(RouteTicketNo(<<>>, 0), 2, "Medium", "Not Open Yet",
                                        None, SLA_HOURS, 0)
                 IN Insert(<<>>, [process_assignee_update(filed, "3", "", users).ticket
                                     EXCEPT !.status = "In Progress"])
    /\ comments = <<>>
    /\ attachments = <<>>
    /\ history = <<HistoryEntry(1, Some(2), "Ticket created"),
                   HistoryEntry(1, Some(1), "Assignee changed"),
                   HistoryEntry(1, Some(1), "Auto status changed")>>
    /\ sessions = {1, 2, 3}
    /\ now = DueAtCreation - 7 * OneHour
    /\ sent = <<>>
    /\ last = Response("boot", 0, 0, <<>>, "ok")
    /\ AuxInit

ReminderForms ==
    {[BlankForm EXCEPT !.status = "Closed"], [BlankForm EXCEPT !.status = "Open"],
     [BlankForm EXCEPT !.assignee_id = ""], [BlankForm EXCEPT !.assignee_id = "3"]}

ReminderNext ==
    \/ now < DueAtCreation + OneHour /\ Tick(OneHour)
    \/ \E f \in ReminderForms : TicketView(1, 1, f)
    \/ send_sla_reminders

ReminderSpec == Reminding /\ [][ReminderNext]_vars

Reminders(id, H) == SelectSeq(H, LAMBDA h : IsReminder(h, id))

Reminded(id, mails) == \E k \in DOMAIN mails : mails[k].kind = "sla_reminder" /\ mails[k].ticket_id = id

MaxJobs == 2

Tasks ==
    {"check_sla", "send_sla_reminders", "daily_sla_report", "cleanup_old_email_logs",
     "archive_closed_tickets", "send_ticket_notification"}

\* A retry limit one higher than the code passes
max_retries_plus(task) == IF task = "send_ticket_notification" THEN 3 ELSE 4

\* max_retries as passed to self.retry
max_retries(task) == IF task = "send_ticket_notification" THEN 2 ELSE 3

Job(task, arg, retries, state) ==
    [task |-> task, arg |-> arg, retries |-> retries, state |-> state]

\* The beat schedule or a caller queues an invocation; arg is the ticket of
\* send_ticket_notification.  The periods of the schedule (an hour and
\* more) are far longer than the retries of an invocation take, so a task
\* is queued once
Invoke(task, arg) ==
    /\ Cardinality(jobs) < MaxJobs
    /\ ~\E j \in jobs : j.task = task /\ j.arg = arg
    /\ jobs' = jobs \cup {Job(task, arg, 0, "queued")}
    /\ UNCHANGED <<users, tickets, comments, attachments, history, sessions, now, sent, last>>
    /\ UNCHANGED <<config, email_logs, notification_reads, pending, threads>>

\* What the body may do: return its result, raise into the outer except
\* branch, or (in the two sweeps) fail on the mail of a ticket, which the
\* inner except branch logs before the body goes on; the notification of a
\* ticket that does not exist always raises
Outcomes(j) ==
    IF j.task = "send_ticket_notification" /\ j.arg \notin DOMAIN tickets THEN {"raised"}
    ELSE {"returned", "raised"}
         \cup (IF j.task \in {"check_sla", "send_sla_reminders"} THEN {"mail_failed"} ELSE {})

\* The rows and mails of a body that returns
Body(j) ==
    LET U == create_app(users)
        alerts == Ascending({id \in DOMAIN tickets : BreachDue(id, U, tickets, history, now)})
        reminders == Ascending({id \in DOMAIN tickets : ReminderDue(id, U, tickets, history, now)})
        admin_emails == {U[i].email : i \in {k \in DOMAIN U :
                            U[k].role = "admin" /\ U[k].active /\ U[k].email # ""}}
    IN
    IF j.task = "check_sla"
    THEN [history |-> history \o [k \in DOMAIN alerts |-> BreachNotified(alerts[k])],
          sent |-> [k \in DOMAIN alerts |->
                       Mail("sla_breach", BreachRecipients(tickets[alerts[k]], U), alerts[k])]]
    ELSE IF j.task = "send_sla_reminders"
    THEN [history |-> history \o [k \in DOMAIN reminders |-> ReminderEntry(reminders[k], now)],
          sent |-> [k \in DOMAIN reminders |->
                       Mail("sla_reminder", U[Val(AssigneeOf(tickets[reminders[k]], U))].email,
                            reminders[k])]]
    ELSE IF j.task = "daily_sla_report"
    THEN [history |-> history,
          sent |-> IF admin_emails = {} THEN <<>> ELSE <<Mail("sla_report", admin_emails, 0)>>]
    ELSE IF j.task = "send_ticket_notification"
    THEN [history |-> history, sent |-> email_ticket_created(U[tickets[j.arg].user_id], j.arg)]
    ELSE \* cleanup_old_email_logs, archive_closed_tickets: no row of the model
         \* is 30 days old, and the archive job only counts
         [history |-> history, sent |-> <<>>]

\* The worker runs one attempt of a queued invocation: FlaskTask builds
\* the application and calls the body
Attempt(j, outcome) ==
    /\ j \in jobs
    /\ j.state = "queued"
    /\ outcome \in Outcomes(j)
    /\ Len(history) < MaxHistory + MaxTickets
    /\ users' = create_app(users)
    /\ IF outcome = "raised"
       THEN /\ jobs' = (jobs \ {j}) \cup
                       {IF j.retries < max_retries(j.task)
                        THEN [j EXCEPT !.retries = @ + 1]
                        ELSE [j EXCEPT !.state = "failed"]}
            /\ UNCHANGED <<history>>
            /\ sent' = <<>>
       ELSE /\ jobs' = (jobs \ {j}) \cup {[j EXCEPT !.state = "done"]}
            /\ history' = IF outcome = "mail_failed" THEN history ELSE Body(j).history
            /\ sent' = IF outcome = "mail_failed" THEN <<>> ELSE Body(j).sent
    /\ last' = Response(j.task, 0, 0, <<>>, outcome)
    /\ UNCHANGED <<tickets, comments, attachments, sessions, now>>
    /\ UNCHANGED <<config, email_logs, notification_reads, pending, threads>>

Worker == \E j \in jobs, outcome \in {"returned", "raised", "mail_failed"} : Attempt(j, outcome)

JobNext ==
    \/ \E task \in Tasks \ {"send_ticket_notification"} : Invoke(task, 0)
    \/ \E id \in 1..2 : Invoke("send_ticket_notification", id)
    \/ Worker

\* The worker keeps taking queued invocations
JobSpec == Reminding /\ [][JobNext]_vars /\ WF_vars(Worker)

Queued(task, arg) == \E j \in jobs : j.task = task /\ j.arg = arg

Ended(task, arg) ==
    \E j \in jobs : j.task = task /\ j.arg = arg /\ j.state \in {"done", "failed"}

\* The step is an attempt of invocation j, which it leaves as k
Attempted(j, k) ==
    /\ j \in jobs /\ j \notin jobs'
    /\ k \in jobs' /\ k \notin jobs
    /\ k.task = j.task /\ k.arg = j.arg

RetryLimit(task) == IF task = "send_ticket_notification" THEN 2 ELSE 3

\* C26: an invocation whose body keeps failing is retried at most 3 times
\* (2 times for send_ticket_notification) and then fails for good; every
\* invocation ends with a result or a final failure while the worker goes
\* on serving the others; the failure of the mail of one ticket inside
\* check_sla or send_sla_reminders ends the invocation without a retry
C26_BoundedRetries ==
    /\ [](\A j \in jobs : j.retries <= RetryLimit(j.task))
    /\ [][\A j \in jobs : j.state \in {"done", "failed"} => j \in jobs']_vars
    /\ [][\A j \in jobs : \A k \in jobs' :
            Attempted(j, k) =>
                /\ j.state = "queued"
                /\ last'.result = "raised" =>
                      IF j.retries < RetryLimit(j.task)
                      THEN k.state = "queued" /\ k.retries = j.retries + 1
                      ELSE k.state = "failed" /\ k.retries = j.retries
                /\ last'.result # "raised" => k.state = "done" /\ k.retries = j.retries
                /\ last'.result = "mail_failed" => j.task \in {"check_sla", "send_sla_reminders"}]_vars
    /\ \A task \in Tasks : \A arg \in 0..2 : Queued(task, arg) ~> Ended(task, arg)

\* A sweep has failed for good after its third retry, and the notification
\* queued with it was served afterwards
C26_Witness ==
    /\ \E j \in jobs : j.task = "check_sla" /\ j.state = "failed" /\ j.retries = 3
    /\ \E j \in jobs : j.task = "send_ticket_notification" /\ j.state = "done"
    /\ last.op = "send_ticket_notification"

(***************************************************************************)
(* The hourly breach check as a recurring job                              *)
(***************************************************************************)
\* The beat schedule runs check_sla every hour: the check is taken again
\* and again
BreachLiveSpec == OneTicket /\ [][BreachNext]_vars /\ WF_vars(check_sla)

\* C27: while the hourly check keeps running, a ticket that is breached,
\* neither Closed nor Resolved, and stays so, eventually has a breach
\* notification entry in its history
C27_BreachEventuallyNotified ==
    \A id \in 1..MaxTickets :
        <>[](id \in DOMAIN tickets /\ OpenBreached(id))
            => <>(id \in DOMAIN tickets /\ Alerts(id, history) >= 1)

(***************************************************************************)
(* /admin/ticket/<id>/update without assignee fields                       *)
(***************************************************************************)
\* The step is a served administrative update whose form has no
\* assignee_id field and no custom assignee text
NoAssigneeSubmitted ==
    /\ last'.op = "admin_ticket_update"
    /\ last'.result = "ok"
    /\ now' = now
    /\ last'.form.assignee_id = Absent
    /\ Strip(last'.form.assignee_name_custom) = ""

\* C28: an administrative ticket update that carries no assignee value and
\* no custom assignee text leaves the assignee reference, the assignee name
\* and the assignment tag of the ticket as they are and appends no
\* assignee-change entry
C28_AdminUpdateKeepsAssignee ==
    [][NoAssigneeSubmitted =>
          /\ Assignment(tickets'[last'.target]) = Assignment(tickets[last'.target])
          /\ CountEvents(Gained, "Assignee changed") = 0]_vars

(***************************************************************************)
(* Deactivation: sessions that outlive the active flag                     *)
(***************************************************************************)
DeactivateForms == {[BlankForm EXCEPT !.status = "Closed"], [BlankForm EXCEPT !.status = "Re-Open"]}

DeactivateNext ==
    \/ \E x \in {2, 3}, b \in BOOLEAN : AdminUserEdit(1, x, ActiveForm(x, b))
    \/ \E e \in {"a@x.com", "b@x.com"} : Login(e, Passw0rd, "user")
    \/ \E u \in {2, 3} : Logout(u)
    \/ \E u \in {2, 3}, f \in DeactivateForms : TicketView(u, 1, f)

DeactivateSpec == OneTicket /\ [][DeactivateNext]_vars

\* The step answers a request that the login_required guard let through for
\* the session's user
ServedAsAuthenticated ==
    /\ last'.op \notin {"login", "register", "boot", "create_app"}
    /\ last'.user \in DOMAIN users
    /\ now' = now

\* C29: once an administrator has switched a user's active flag off, no
\* later request is processed as authenticated for that user, a request on
\* a session established before the deactivation included.
C29_DeactivatedNotServed ==
    [][ServedAsAuthenticated => users[last'.user].active]_vars

(***************************************************************************)
(* The last admin                                                          *)
(***************************************************************************)
\* C30: once a user has role admin, as after the first application start,
\* every later state has a user of role admin: no admin user edit (an admin
\* changing its own role included) and no deletion removes the last admin.
C30_AlwaysAnAdmin == [][Admins(users) # {} => Admins(users') # {}]_vars

====
